---- MODULE Spec2Model ----
(***************************************************************************)
(* Surveillance DHT22 + PZEM-004T: the acquisition loop, the two sensor    *)
(* channels, the SQLite store and the recent-sample buffers of             *)
(* surveillance_dht22_pzem.py (v1) and surveillance_dht22_pzem_fixed.py    *)
(* (v2).  SystemeSurveillance and DatabaseManager are the same in both     *)
(* files; the sensor classes differ and are modelled per file.             *)
(***************************************************************************)
EXTENDS Integers, Sequences, FiniteSets, TLC

VARIABLES
    running,                 \* SystemeSurveillance.running
    pc,                      \* position of the thread running boucle_surveillance
    exception,               \* exception that ended the try block of boucle_surveillance
    demarrages,              \* number of calls of boucle_surveillance so far
    mesure_env,              \* cycle_mesure local: result of dht22.lire_mesure()
    mesure_elec,             \* cycle_mesure local: result of pzem.lire_mesure()
    horodatage,              \* per channel: serial number of the last sample produced
    table_env,               \* rows of mesures_environnement
    table_elec,              \* rows of mesures_electriques
    schema,                  \* tables and indexes of the database file; runs of _creer_tables
    db_lock,                 \* holder of DatabaseManager.lock
    fil,                     \* per caller of inserer_mesure_*: its position and its sample
    horloge,                 \* datetime.now(), in hours since the store was created
    resultat,                \* value returned by the last query of the store
    dernieres_mesures_env,   \* deque(maxlen=100)
    dernieres_mesures_elec,  \* deque(maxlen=100)
    lock,                    \* holder of SystemeSurveillance.lock
    pousses,                 \* history: every sample appended to each deque, in order
    wpc,                     \* position of the web thread in api_donnees
    reponse,                 \* dict being built / returned by obtenir_donnees_dashboard
    instantane,              \* history: the deques when the web thread took the lock
    visiteurs,               \* per thread of the web server: the route it serves, its position
    regs,                    \* registers answered by the last Modbus transaction
    mesure_pzem,             \* value returned by the last PZEMSensor.lire_mesure
    sim_tension,             \* PZEMSensor.sim_tension, in tenths of a volt
    sim_courant,             \* PZEMSensor.sim_courant, in tenths of an ampere
    sim_energie,             \* PZEMSensor.sim_energie, in 1/360000 of a thousandth of a kWh
    lectures_sim,            \* number of simulated PZEMSensor.lire_mesure calls so far
    sim_temp,                \* DHT22Sensor.sim_temp, in tenths of a degree
    sim_hum,                 \* DHT22Sensor.sim_hum, in tenths of a percent
    mesure_dht,              \* value returned by the last DHT22Sensor.lire_mesure
    dht,                     \* the DHT22Sensor instance: file, mode, pin
    issue_dht,               \* what the driver answered to the last hardware DHT22 read
    appel,                   \* last call of a derived-metric function: arguments and outcome
    pzem                     \* the PZEMSensor instance: file, mode, state of the serial link

vars == <<running, pc, exception, demarrages, mesure_env, mesure_elec,
          horodatage, table_env, table_elec, schema, db_lock, fil, horloge, resultat,
          dernieres_mesures_env,
          dernieres_mesures_elec, lock, pousses, wpc, reponse, instantane, visiteurs,
          regs, mesure_pzem, sim_tension, sim_courant, sim_energie,
          lectures_sim, sim_temp, sim_hum, mesure_dht, dht, issue_dht, appel,
          pzem>>

boucleVars == <<running, exception, demarrages>>
cycleVars  == <<mesure_env, mesure_elec, horodatage>>
magasinVars == <<schema, db_lock, fil, horloge, resultat>>
baseVars   == <<table_env, table_elec, magasinVars>>
dequeVars  == <<dernieres_mesures_env, dernieres_mesures_elec, pousses>>
webVars    == <<wpc, reponse, instantane, visiteurs>>
pzemSimVars == <<sim_tension, sim_courant, sim_energie, lectures_sim>>
pzemVars   == <<regs, mesure_pzem, pzemSimVars, pzem>>
dhtMatVars == <<dht, issue_dht, appel>>
dhtVars    == <<sim_temp, sim_hum, mesure_dht, dhtMatVars>>

----------------------------------------------------------------------------
(* Bounds of the model *)

\* samples each channel may produce in the specification with faults and threads
MaxEchantillons == 2
\* constructions of a DatabaseManager on one database file
MaxCreations == 2
\* samples each channel may produce in the specification that fills the deques
MaxRemplissage == 102
\* calls of boucle_surveillance on one SystemeSurveillance instance
MaxDemarrages == 2
\* consecutive reads of the simulated electrical channel
MaxLecturesSim == 17
\* rows appended to the store, both tables together, in the store specification
MaxLignes == 3
\* latest hour of the clock in the store specification
MaxHorloge == 24
\* largest limite passed to obtenir_mesures_recentes
MaxLimite == 3
\* rows of each kind that a constructed instance stores in a run
MaxLignesInstance == 1

(* Program constants *)

\* deque(maxlen=100)
maxlen == 100

----------------------------------------------------------------------------
(* Values *)

\* Python None, as returned by lire_mesure
None == [type |-> "None"]

\* a local of cycle_mesure that is not bound yet
NonLu == [type |-> "non_lu"]

\* A sample: the dataclass instance built by lire_mesure. Its timestamp is
\* datetime.now(); the model keeps the serial number of the reading on its
\* channel, which grows with the clock.
MesureEnvironnement(n) == [type |-> "environnement", timestamp |-> n]

MesureElectrique(n) == [type |-> "electrique", timestamp |-> n]

EstMesure(m) == m.type \in {"environnement", "electrique"}

\* AppendDeque on a deque built without maxlen
AppendDequeSansLimite(d, x) == Append(d, x)

\* AppendDeque that refuses the new element when the deque is full
AppendDequeJetteNouveau(d, x) == IF Len(d) >= maxlen THEN d ELSE Append(d, x)

\* deque.append on a deque(maxlen=100): append on the right, and when the
\* length exceeds maxlen drop the leftmost element
AppendDeque(d, x) ==
    IF Len(d) >= maxlen THEN Append(Tail(d), x) ELSE Append(d, x)

\* Inserer giving every row the same id
InsererIdFixe(table, m) == Append(table, [id |-> 1, mesure |-> m])

\* INSERT INTO ...; conn.commit(): one more row, id INTEGER PRIMARY KEY
\* AUTOINCREMENT is one more than the largest id the table has held
Inserer(table, m) == Append(table, [id |-> Len(table) + 1, mesure |-> m])

\* the threads that call inserer_mesure_* on one DatabaseManager: the one
\* running boucle_surveillance and one more caller holding systeme.db
Fils == {"boucle", "autre"}

\* the threads on which the web server runs the routes
Visiteurs == {"web1", "web2"}

\* a thread of the web server between two requests
VisiteurAuRepos == [pc |-> "repos", route |-> "aucune"]

\* a caller that is not inside inserer_mesure_*
FilAuRepos == [pc |-> "repos", mesure |-> NonLu, erreur |-> FALSE]

\* the two tables and the two indexes that _creer_tables names
ObjetsSchema ==
    {"mesures_environnement", "mesures_electriques",
     "idx_env_timestamp", "idx_elec_timestamp"}

ReponseVide ==
    [mesures_environnement |-> <<>>, mesures_electriques |-> <<>>,
     statistiques |-> [environnement |-> 0, electrique |-> 0],
     timestamp |-> 0]

----------------------------------------------------------------------------
(* State after SystemeSurveillance.__init__ *)

InitCoeur ==
    /\ running = FALSE
    /\ exception = "aucune"
    /\ demarrages = 0
    /\ mesure_env = NonLu
    /\ mesure_elec = NonLu
    /\ horodatage = [environnement |-> 0, electrique |-> 0]
    /\ table_env = <<>>
    /\ table_elec = <<>>
    /\ dernieres_mesures_env = <<>>
    /\ dernieres_mesures_elec = <<>>
    /\ lock = "libre"
    /\ pousses = [environnement |-> <<>>, electrique |-> <<>>]
    /\ wpc = "repos"
    /\ reponse = ReponseVide
    /\ instantane = [environnement |-> <<>>, electrique |-> <<>>, ajout_en_cours |-> FALSE]
    /\ visiteurs = [v \in Visiteurs |-> VisiteurAuRepos]
    /\ regs = <<0, 0, 0, 0, 0, 0, 0, 0, 0, 0>>
    /\ mesure_pzem = NonLu
    /\ sim_temp = 220
    /\ sim_hum = 500
    /\ mesure_dht = NonLu

\* PZEMSensor.__init__ with mode_simulation (v1, lines 348-352)
InitPZEMSimulation ==
    /\ sim_tension = 2300
    /\ sim_courant = 15
    /\ sim_energie = 0
    /\ lectures_sim = 0

\* DatabaseManager.__init__ on a new database file: the lock is free, no call
\* is in progress
InitMagasin ==
    /\ schema = [objets |-> ObjetsSchema, creations |-> 1, lignes |-> 0]
    /\ db_lock = "libre"
    /\ fil = [f \in Fils |-> FilAuRepos]
    /\ horloge = 0
    /\ resultat = NonLu

\* nothing was read from the environmental channel and no derived-metric
\* function was called yet
InitDHT ==
    /\ issue_dht = NonLu
    /\ appel = NonLu

\* no database file yet: DatabaseManager.__init__ is about to run
InitFichier ==
    /\ pc = "repos"
    /\ InitCoeur
    /\ InitPZEMSimulation
    /\ InitDHT
    /\ dht = [programme |-> "v1", mode |-> "simulation", broche |-> 4]
    /\ pzem = [programme |-> "v1", mode |-> "simulation", liaison |-> "aucune"]
    /\ schema = [objets |-> {}, creations |-> 0, lignes |-> 0]
    /\ db_lock = "libre"
    /\ fil = [f \in Fils |-> FilAuRepos]
    /\ horloge = 0
    /\ resultat = NonLu

\* The state after SystemeSurveillance.__init__ that the specifications of the
\* loop, of the store and of the simulated channels start from: v1 without
\* the sensor libraries, both channels in simulation mode
Init ==
    /\ pc = "repos"
    /\ InitCoeur
    /\ InitMagasin
    /\ InitPZEMSimulation
    /\ InitDHT
    /\ dht = [programme |-> "v1", mode |-> "simulation", broche |-> 4]
    /\ pzem = [programme |-> "v1", mode |-> "simulation", liaison |-> "aucune"]

\* SystemeSurveillance.__init__ is about to build its sensors
InitConstruction ==
    /\ pc = "construire_dht"
    /\ InitCoeur
    /\ InitMagasin
    /\ InitPZEMSimulation
    /\ InitDHT
    /\ dht = [programme |-> "aucun", mode |-> "aucun", broche |-> 0]
    /\ pzem = [programme |-> "aucun", mode |-> "aucun", liaison |-> "aucune"]

----------------------------------------------------------------------------
(* boucle_surveillance, run by the main thread *)

\* positions inside the try block of boucle_surveillance
DansTry == {"tant_que", "lire_env", "inserer_env", "verrou_env", "ajouter_env",
            "lire_elec", "inserer_elec", "verrou_elec", "ajouter_elec",
            "afficher", "dormir"}

\* positions inside cycle_mesure
DansCycle == DansTry \ {"tant_que", "dormir"}

\* boucle_surveillance is called, as __main__ does: self.running = True, enter
\* the try block
Demarrer ==
    /\ pc = "repos"
    /\ demarrages' = demarrages + 1
    /\ running' = TRUE
    /\ exception' = "aucune"
    /\ pc' = "tant_que"
    /\ UNCHANGED <<cycleVars, baseVars, dequeVars, lock, webVars, pzemVars, dhtVars>>

\* boucle_surveillance is called again on the same instance after it was left
Redemarrer ==
    /\ pc = "fini"
    /\ demarrages < MaxDemarrages
    /\ demarrages' = demarrages + 1
    /\ running' = TRUE
    /\ exception' = "aucune"
    /\ pc' = "tant_que"
    /\ UNCHANGED <<cycleVars, baseVars, dequeVars, lock, webVars, pzemVars, dhtVars>>

\* TantQue as "while True": the flag is not read
TantQueIgnoreDrapeau ==
    /\ pc = "tant_que"
    /\ pc' = "lire_env"
    /\ mesure_env' = NonLu
    /\ mesure_elec' = NonLu
    /\ UNCHANGED <<boucleVars, horodatage, baseVars, dequeVars, lock, webVars,
                   pzemVars, dhtVars>>

\* while self.running: one more cycle, or leave the loop for the finally block
TantQue ==
    /\ pc = "tant_que"
    /\ IF running
         THEN /\ pc' = "lire_env"
              /\ mesure_env' = NonLu
              /\ mesure_elec' = NonLu
         ELSE /\ pc' = "finally"
              /\ UNCHANGED <<mesure_env, mesure_elec>>
    /\ UNCHANGED <<boucleVars, horodatage, baseVars, dequeVars, lock, webVars,
                   pzemVars, dhtVars>>

\* LireEnv without the "if mesure_env:" test: the insert and the append are
\* reached with None as well
LireEnvSansTest(max) ==
    /\ pc = "lire_env"
    /\ \/ /\ mesure_env' = None
          /\ pc' = "inserer_env"
          /\ UNCHANGED horodatage
       \/ /\ horodatage.environnement < max
          /\ horodatage' = [horodatage EXCEPT !.environnement = @ + 1]
          /\ mesure_env' = MesureEnvironnement(horodatage.environnement + 1)
          /\ pc' = "inserer_env"
    /\ UNCHANGED <<boucleVars, mesure_elec, baseVars, dequeVars, lock, webVars,
                   pzemVars, dhtVars>>

\* mesure_env = self.dht22.lire_mesure(): None or a sample; if mesure_env:
LireEnv(max) ==
    /\ pc = "lire_env"
    /\ \/ /\ mesure_env' = None
          /\ pc' = "lire_elec"
          /\ UNCHANGED horodatage
       \/ /\ horodatage.environnement < max
          /\ horodatage' = [horodatage EXCEPT !.environnement = @ + 1]
          /\ mesure_env' = MesureEnvironnement(horodatage.environnement + 1)
          /\ pc' = "inserer_env"
    /\ UNCHANGED <<boucleVars, mesure_elec, baseVars, dequeVars, lock, webVars,
                   pzemVars, dhtVars>>

\* self.db.inserer_mesure_environnement(mesure_env): INSERT and commit
InsererEnv ==
    /\ pc = "inserer_env"
    /\ table_env' = Inserer(table_env, mesure_env)
    /\ pc' = "verrou_env"
    /\ UNCHANGED <<boucleVars, cycleVars, table_elec, magasinVars, dequeVars, lock,
                   webVars, pzemVars, dhtVars>>

\* self.db.inserer_mesure_environnement(mesure_env) raises sqlite3.Error: nothing
\* in cycle_mesure or in the while loop catches it, the finally block is next
InsererEnvErreur ==
    /\ pc = "inserer_env"
    /\ exception' = "sqlite3.Error"
    /\ pc' = "finally"
    /\ UNCHANGED <<running, demarrages, cycleVars, baseVars, dequeVars, lock,
                   webVars, pzemVars, dhtVars>>

\* with self.lock: (acquire)
VerrouEnv ==
    /\ pc = "verrou_env"
    /\ lock = "libre"
    /\ lock' = "acquisition"
    /\ pc' = "ajouter_env"
    /\ UNCHANGED <<boucleVars, cycleVars, baseVars, dequeVars, webVars, pzemVars, dhtVars>>

\* self.dernieres_mesures_env.append(asdict(mesure_env)); release of the lock
AjouterEnv ==
    /\ pc = "ajouter_env"
    /\ dernieres_mesures_env' = AppendDeque(dernieres_mesures_env, mesure_env)
    /\ pousses' = [pousses EXCEPT !.environnement = Append(@, mesure_env)]
    /\ lock' = "libre"
    /\ pc' = "lire_elec"
    /\ UNCHANGED <<boucleVars, cycleVars, baseVars, dernieres_mesures_elec, webVars,
                   pzemVars, dhtVars>>

\* mesure_elec = self.pzem.lire_mesure(): None or a sample; if mesure_elec:
LireElec(max) ==
    /\ pc = "lire_elec"
    /\ \/ /\ mesure_elec' = None
          /\ pc' = "afficher"
          /\ UNCHANGED horodatage
       \/ /\ horodatage.electrique < max
          /\ horodatage' = [horodatage EXCEPT !.electrique = @ + 1]
          /\ mesure_elec' = MesureElectrique(horodatage.electrique + 1)
          /\ pc' = "inserer_elec"
    /\ UNCHANGED <<boucleVars, mesure_env, baseVars, dequeVars, lock, webVars,
                   pzemVars, dhtVars>>

\* self.db.inserer_mesure_electrique(mesure_elec): INSERT and commit
InsererElec ==
    /\ pc = "inserer_elec"
    /\ table_elec' = Inserer(table_elec, mesure_elec)
    /\ pc' = "verrou_elec"
    /\ UNCHANGED <<boucleVars, cycleVars, table_env, magasinVars, dequeVars, lock,
                   webVars, pzemVars, dhtVars>>

\* self.db.inserer_mesure_electrique(mesure_elec) raises sqlite3.Error
InsererElecErreur ==
    /\ pc = "inserer_elec"
    /\ exception' = "sqlite3.Error"
    /\ pc' = "finally"
    /\ UNCHANGED <<running, demarrages, cycleVars, baseVars, dequeVars, lock,
                   webVars, pzemVars, dhtVars>>

\* with self.lock: (acquire)
VerrouElec ==
    /\ pc = "verrou_elec"
    /\ lock = "libre"
    /\ lock' = "acquisition"
    /\ pc' = "ajouter_elec"
    /\ UNCHANGED <<boucleVars, cycleVars, baseVars, dequeVars, webVars, pzemVars, dhtVars>>

\* AjouterElec that pushes only when the environmental read gave a sample too
AjouterElecSiEnv ==
    /\ pc = "ajouter_elec"
    /\ dernieres_mesures_elec' =
          IF EstMesure(mesure_env)
            THEN AppendDeque(dernieres_mesures_elec, mesure_elec)
            ELSE dernieres_mesures_elec
    /\ pousses' = [pousses EXCEPT !.electrique = Append(@, mesure_elec)]
    /\ lock' = "libre"
    /\ pc' = "afficher"
    /\ UNCHANGED <<boucleVars, cycleVars, baseVars, dernieres_mesures_env, webVars,
                   pzemVars, dhtVars>>

\* AjouterElec that appends to the deque of the other kind
AjouterElecDansEnv ==
    /\ pc = "ajouter_elec"
    /\ dernieres_mesures_env' = AppendDeque(dernieres_mesures_env, mesure_elec)
    /\ pousses' = [pousses EXCEPT !.environnement = Append(@, mesure_elec)]
    /\ lock' = "libre"
    /\ pc' = "afficher"
    /\ UNCHANGED <<boucleVars, cycleVars, baseVars, dernieres_mesures_elec, webVars,
                   pzemVars, dhtVars>>

\* self.dernieres_mesures_elec.append(asdict(mesure_elec)); release of the lock
AjouterElec ==
    /\ pc = "ajouter_elec"
    /\ dernieres_mesures_elec' = AppendDeque(dernieres_mesures_elec, mesure_elec)
    /\ pousses' = [pousses EXCEPT !.electrique = Append(@, mesure_elec)]
    /\ lock' = "libre"
    /\ pc' = "afficher"
    /\ UNCHANGED <<boucleVars, cycleVars, baseVars, dernieres_mesures_env, webVars,
                   pzemVars, dhtVars>>

\* mesure_env = self.dht22.lire_mesure() with the sample stamped by the clock:
\* timestamp=datetime.now().isoformat() in lire_mesure
LireEnvDate(max) ==
    /\ pc = "lire_env"
    /\ \/ /\ mesure_env' = None
          /\ pc' = "lire_elec"
          /\ UNCHANGED horodatage
       \/ /\ horodatage.environnement < max
          /\ horodatage' = [horodatage EXCEPT !.environnement = @ + 1]
          /\ mesure_env' = MesureEnvironnement(horloge)
          /\ pc' = "inserer_env"
    /\ UNCHANGED <<boucleVars, mesure_elec, baseVars, dequeVars, lock, webVars,
                   pzemVars, dhtVars>>

\* mesure_elec = self.pzem.lire_mesure() with the sample stamped by the clock
LireElecDate(max) ==
    /\ pc = "lire_elec"
    /\ \/ /\ mesure_elec' = None
          /\ pc' = "afficher"
          /\ UNCHANGED horodatage
       \/ /\ horodatage.electrique < max
          /\ horodatage' = [horodatage EXCEPT !.electrique = @ + 1]
          /\ mesure_elec' = MesureElectrique(horloge)
          /\ pc' = "inserer_elec"
    /\ UNCHANGED <<boucleVars, mesure_env, baseVars, dequeVars, lock, webVars,
                   pzemVars, dhtVars>>

\* self._afficher_terminal(mesure_env, mesure_elec): prints, cycle_mesure returns
Afficher ==
    /\ pc = "afficher"
    /\ pc' = "dormir"
    /\ UNCHANGED <<boucleVars, cycleVars, baseVars, dequeVars, lock, webVars,
                   pzemVars, dhtVars>>

\* time.sleep(self.intervalle_mesure) returns
Dormir ==
    /\ pc = "dormir"
    /\ pc' = "tant_que"
    /\ UNCHANGED <<boucleVars, cycleVars, baseVars, dequeVars, lock, webVars,
                   pzemVars, dhtVars>>

\* Ctrl+C: KeyboardInterrupt raised in the main thread inside the try block;
\* a with-block on the way out releases self.lock; except KeyboardInterrupt
KeyboardInterrupt ==
    /\ pc \in DansTry
    /\ exception' = "KeyboardInterrupt"
    /\ lock' = IF lock = "acquisition" THEN "libre" ELSE lock
    /\ pc' = "finally"
    /\ UNCHANGED <<running, demarrages, cycleVars, baseVars, dequeVars,
                   webVars, pzemVars, dhtVars>>

\* Finally without the call of arreter: the flag is left as it is
FinallySansArreter ==
    /\ pc = "finally"
    /\ pc' = "fini"
    /\ UNCHANGED <<boucleVars, cycleVars, baseVars, dequeVars, lock,
                   webVars, pzemVars, dhtVars>>

\* finally: self.arreter(); then boucle_surveillance returns, or the exception
\* that no except clause caught goes on to the caller
Finally ==
    /\ pc = "finally"
    /\ running' = FALSE
    /\ pc' = "fini"
    /\ UNCHANGED <<exception, demarrages, cycleVars, baseVars, dequeVars, lock,
                   webVars, pzemVars, dhtVars>>

\* arreter() called by another thread: self.running = False
Arreter ==
    /\ running' = FALSE
    /\ UNCHANGED <<pc, exception, demarrages, cycleVars, baseVars, dequeVars, lock,
                   webVars, pzemVars, dhtVars>>

----------------------------------------------------------------------------
(* DatabaseManager: inserer_mesure_*, obtenir_mesures_recentes and          *)
(* obtenir_statistiques, the same in both files apart from column names    *)

\* _creer_tables that drops what exists and creates the four objects anew
CreerTablesEnRecreant(fichier) ==
    [objets |-> ObjetsSchema, env |-> <<>>, elec |-> <<>>]

\* _creer_tables on a database file: four CREATE ... IF NOT EXISTS and a
\* commit. An object that exists is left as it is, a table that is missing
\* is created without rows.
CreerTablesSur(fichier) ==
    [objets |-> fichier.objets \cup ObjetsSchema,
     env |-> IF "mesures_environnement" \in fichier.objets THEN fichier.env ELSE <<>>,
     elec |-> IF "mesures_electriques" \in fichier.objets THEN fichier.elec ELSE <<>>]

\* the database file as _creer_tables finds it
Fichier == [objets |-> schema.objets, env |-> table_env, elec |-> table_elec]

\* DatabaseManager.__init__: self._creer_tables(), on a new file or on the
\* file of an earlier run
CreerTables ==
    /\ schema.creations < MaxCreations
    /\ db_lock = "libre"
    /\ \A f \in Fils : fil[f].pc = "repos"
    /\ LET apres == CreerTablesSur(Fichier)
       IN  /\ schema' = [objets |-> apres.objets,
                         creations |-> schema.creations + 1,
                         lignes |-> Len(table_env) + Len(table_elec)]
           /\ table_env' = apres.env
           /\ table_elec' = apres.elec
    /\ UNCHANGED <<pc, boucleVars, cycleVars, db_lock, fil, horloge, resultat,
                   dequeVars, lock, webVars, pzemVars, dhtVars>>

\* the instants at which the trials read the clock, up to now
Instants(maintenant) == {t \in {0, 12, 24, 36, 48} : t <= maintenant}

\* the samples handed to the store: a MesureEnvironnement or MesureElectrique
\* read at hour t, with the columns the queries aggregate
LigneEnv(t) ==
    [type |-> "environnement", timestamp |-> t,
     temperature |-> 200 + t, humidite |-> 600 - t]

LigneElec(t) ==
    [type |-> "electrique", timestamp |-> t,
     tension |-> 2300 - t, courant |-> 1500 + t, puissance |-> 3450 + t,
     energie |-> 10 + t, frequence |-> 500, facteur_puissance |-> 95]

\* number of rows appended or being appended
LignesEngagees ==
    Len(table_env) + Len(table_elec)
        + Cardinality({f \in Fils : fil[f].pc # "repos"})

\* datetime.now() moves on
AvancerHorloge ==
    /\ horloge + 12 <= MaxHorloge
    /\ horloge' = horloge + 12
    /\ UNCHANGED <<pc, schema, boucleVars, cycleVars, table_env, table_elec, db_lock, fil,
                   resultat, dequeVars, lock, webVars, pzemVars, dhtVars>>

\* a thread calls inserer_mesure_environnement or inserer_mesure_electrique
\* with a sample read at some instant up to now
AppelerInserer(f) ==
    /\ fil[f].pc = "repos"
    /\ LignesEngagees < MaxLignes
    /\ \E t \in Instants(horloge) : \E m \in {LigneEnv(t), LigneElec(t)} :
          fil' = [fil EXCEPT ![f] = [pc |-> "verrou", mesure |-> m, erreur |-> FALSE]]
    /\ UNCHANGED <<pc, schema, boucleVars, cycleVars, table_env, table_elec, db_lock, horloge,
                   resultat, dequeVars, lock, webVars, pzemVars, dhtVars>>

\* PrendreVerrouBase that enters without the lock being free
PrendreVerrouBaseSansAttente(f) ==
    /\ fil[f].pc = "verrou"
    /\ db_lock' = f
    /\ fil' = [fil EXCEPT ![f].pc = "execute"]
    /\ UNCHANGED <<pc, schema, boucleVars, cycleVars, table_env, table_elec, horloge,
                   resultat, dequeVars, lock, webVars, pzemVars, dhtVars>>

\* with self.lock: (acquire)
PrendreVerrouBase(f) ==
    /\ fil[f].pc = "verrou"
    /\ db_lock = "libre"
    /\ db_lock' = f
    /\ fil' = [fil EXCEPT ![f].pc = "execute"]
    /\ UNCHANGED <<pc, schema, boucleVars, cycleVars, table_env, table_elec, horloge,
                   resultat, dequeVars, lock, webVars, pzemVars, dhtVars>>

\* sqlite3.connect(...); cursor.execute("INSERT ..."): the row is written in
\* the connection's transaction, no other connection sees it yet
ExecuterInsert(f) ==
    /\ fil[f].pc = "execute"
    /\ fil' = [fil EXCEPT ![f].pc = "commit"]
    /\ UNCHANGED <<pc, schema, boucleVars, cycleVars, table_env, table_elec, db_lock, horloge,
                   resultat, dequeVars, lock, webVars, pzemVars, dhtVars>>

\* connect, execute or commit raises sqlite3.Error: the connection's with-block
\* rolls back, the lock's with-block releases self.lock, the caller gets the
\* exception
EchouerInsert(f) ==
    /\ fil[f].pc \in {"execute", "commit"}
    /\ db_lock' = "libre"
    /\ fil' = [fil EXCEPT ![f] = [pc |-> "repos", mesure |-> NonLu, erreur |-> TRUE]]
    /\ UNCHANGED <<pc, schema, boucleVars, cycleVars, table_env, table_elec, horloge,
                   resultat, dequeVars, lock, webVars, pzemVars, dhtVars>>

\* conn.commit(): the row is in its table
Valider(f) ==
    /\ fil[f].pc = "commit"
    /\ IF fil[f].mesure.type = "environnement"
         THEN /\ table_env' = Inserer(table_env, fil[f].mesure)
              /\ UNCHANGED table_elec
         ELSE /\ table_elec' = Inserer(table_elec, fil[f].mesure)
              /\ UNCHANGED table_env
    /\ fil' = [fil EXCEPT ![f].pc = "sortie"]
    /\ UNCHANGED <<pc, schema, boucleVars, cycleVars, db_lock, horloge,
                   resultat, dequeVars, lock, webVars, pzemVars, dhtVars>>

\* Sortir that returns to the caller with DatabaseManager.lock still held
SortirSansRendre(f) ==
    /\ fil[f].pc = "sortie"
    /\ fil' = [fil EXCEPT ![f] = FilAuRepos]
    /\ UNCHANGED <<pc, schema, boucleVars, cycleVars, table_env, table_elec, db_lock,
                   horloge, resultat, dequeVars, lock, webVars, pzemVars, dhtVars>>

\* the two with-blocks are left: self.lock is released, inserer_mesure_* returns
Sortir(f) ==
    /\ fil[f].pc = "sortie"
    /\ db_lock' = "libre"
    /\ fil' = [fil EXCEPT ![f] = FilAuRepos]
    /\ UNCHANGED <<pc, schema, boucleVars, cycleVars, table_env, table_elec, horloge,
                   resultat, dequeVars, lock, webVars, pzemVars, dhtVars>>

\* OrdresDesc without the ORDER BY clause: the rows as they were inserted
OrdresInsertion(table) == {table}

\* the orderings of a set of rows by descending timestamp
RECURSIVE OrdresDescDe(_)
OrdresDescDe(lignes) ==
    IF lignes = {} THEN {<<>>}
    ELSE UNION {{<<l>> \o suite : suite \in OrdresDescDe(lignes \ {l})} :
                   l \in {x \in lignes :
                             \A y \in lignes :
                                 x.mesure.timestamp >= y.mesure.timestamp}}

\* SELECT * FROM ... ORDER BY timestamp DESC: the rows by descending timestamp;
\* SQL leaves the order of rows with equal timestamps open
OrdresDesc(table) == OrdresDescDe({table[i] : i \in 1..Len(table)})

\* LIMIT ?: the first limite rows, limite >= 0
Limiter(lignes, limite) ==
    IF Len(lignes) <= limite THEN lignes ELSE SubSeq(lignes, 1, limite)

\* obtenir_mesures_recentes(limite)
ObtenirMesuresRecentes ==
    /\ \E limite \in 0..MaxLimite :
       \E ordre_env \in OrdresDesc(table_env), ordre_elec \in OrdresDesc(table_elec) :
          resultat' = [type |-> "recentes", argument |-> limite,
                       environnement |-> Limiter(ordre_env, limite),
                       electrique |-> Limiter(ordre_elec, limite)]
    /\ UNCHANGED <<pc, schema, boucleVars, cycleVars, table_env, table_elec, db_lock, fil,
                   horloge, dequeVars, lock, webVars, pzemVars, dhtVars>>

\* the windows the program asks for: heures=24 and heures=24*7
Heures == {24, 24 * 7}

\* DansFenetre that also takes a row stamped exactly at temps_limite
DansFenetreLarge(ligne, temps_limite) == ligne.mesure.timestamp >= temps_limite

\* the characters of a number below 100 written without padding
SansZeros(n) == IF n < 10 THEN <<48 + n>> ELSE <<48 + (n \div 10), 48 + (n % 10)>>

\* Iso that does not pad the day and the hour to two digits
IsoSansZeros(t) ==
    SansZeros((t + 240) \div 24) \o <<84>> \o SansZeros((t + 240) % 24)

\* datetime.isoformat() of the instant t hours after the store was created,
\* as character codes. Of 'YYYY-MM-DDTHH:MM:SS' the day and the hour are kept,
\* two digits each around the 'T' (84); the store was created at 00:00:00 of
\* day 10, and the instants of the trials are whole hours, for which
\* isoformat writes no fraction of a second.
Iso(t) ==
    LET jour == (t + 240) \div 24
        heure == (t + 240) % 24
    IN  <<48 + (jour \div 10), 48 + (jour % 10), 84,
          48 + (heure \div 10), 48 + (heure % 10)>>

\* a > b for two TEXT values under SQLite's BINARY collation: the first
\* differing character decides, a proper prefix is smaller
RECURSIVE TexteApres(_, _)
TexteApres(a, b) ==
    IF a = <<>> THEN FALSE
    ELSE IF b = <<>> THEN TRUE
    ELSE IF Head(a) # Head(b) THEN Head(a) > Head(b)
    ELSE TexteApres(Tail(a), Tail(b))

\* WHERE timestamp > ?: the row's timestamp column, the isoformat text of the
\* instant the sample was read at, against the isoformat text of temps_limite
DansFenetre(ligne, temps_limite) ==
    TexteApres(Iso(ligne.mesure.timestamp), Iso(temps_limite))

\* the values of one column in the rows selected
Colonne(table, temps_limite, champ) ==
    LET choisies == SelectSeq(table, LAMBDA l : DansFenetre(l, temps_limite))
    IN  [i \in 1..Len(choisies) |-> choisies[i].mesure[champ]]

\* NbMesures over a window of twelve hours
NbMesuresDouzeHeures(table, maintenant) ==
    Len(Colonne(table, maintenant - 12, "timestamp"))

\* the nb_mesures column of obtenir_statistiques(heures=24) called at the
\* instant maintenant: SELECT COUNT(*) ... WHERE timestamp > ? with
\* temps_limite = now - 24 h
NbMesures(table, maintenant) ==
    Len(Colonne(table, maintenant - 24, "timestamp"))

RECURSIVE SommeSeq(_)
SommeSeq(v) == IF v = <<>> THEN 0 ELSE Head(v) + SommeSeq(Tail(v))

\* SQL NULL, which sqlite3 hands back as Python None
Null == [type |-> "None"]

\* SUM(col): NULL over no row
Somme(v) == IF v = <<>> THEN Null ELSE [type |-> "nombre", valeur |-> SommeSeq(v)]

\* AVG(col): NULL over no row, otherwise the sum over the count, kept as the
\* two numbers
Moyenne(v) ==
    IF v = <<>> THEN Null
    ELSE [type |-> "quotient", somme |-> SommeSeq(v), nombre |-> Len(v)]

\* MIN(col) and MAX(col): NULL over no row
Minimum(v) ==
    IF v = <<>> THEN Null
    ELSE [type |-> "nombre",
          valeur |-> CHOOSE x \in {v[i] : i \in 1..Len(v)} :
                        \A i \in 1..Len(v) : x <= v[i]]

Maximum(v) ==
    IF v = <<>> THEN Null
    ELSE [type |-> "nombre",
          valeur |-> CHOOSE x \in {v[i] : i \in 1..Len(v)} :
                        \A i \in 1..Len(v) : x >= v[i]]

\* the first SELECT of obtenir_statistiques: an aggregate query without GROUP
\* BY answers one row whatever the table holds, so "fetchone() or []" is that
\* row and the dict has every column
StatsEnv(table, temps_limite) ==
    [nb_mesures |-> Len(Colonne(table, temps_limite, "timestamp")),
     temp_moy |-> Moyenne(Colonne(table, temps_limite, "temperature")),
     temp_min |-> Minimum(Colonne(table, temps_limite, "temperature")),
     temp_max |-> Maximum(Colonne(table, temps_limite, "temperature")),
     hum_moy |-> Moyenne(Colonne(table, temps_limite, "humidite")),
     hum_min |-> Minimum(Colonne(table, temps_limite, "humidite")),
     hum_max |-> Maximum(Colonne(table, temps_limite, "humidite"))]

\* the second SELECT of obtenir_statistiques
StatsElec(table, temps_limite) ==
    [nb_mesures |-> Len(Colonne(table, temps_limite, "timestamp")),
     tension_moy |-> Moyenne(Colonne(table, temps_limite, "tension")),
     courant_moy |-> Moyenne(Colonne(table, temps_limite, "courant")),
     puissance_moy |-> Moyenne(Colonne(table, temps_limite, "puissance")),
     puissance_max |-> Maximum(Colonne(table, temps_limite, "puissance")),
     energie_totale |-> Somme(Colonne(table, temps_limite, "energie")),
     freq_moy |-> Moyenne(Colonne(table, temps_limite, "frequence")),
     fp_moy |-> Moyenne(Colonne(table, temps_limite, "facteur_puissance"))]

\* obtenir_statistiques(heures): temps_limite = now - heures
ObtenirStatistiques ==
    /\ \E heures \in Heures :
          resultat' = [type |-> "statistiques", argument |-> heures,
                       environnement |-> StatsEnv(table_env, horloge - heures),
                       electrique |-> StatsElec(table_elec, horloge - heures)]
    /\ UNCHANGED <<pc, schema, boucleVars, cycleVars, table_env, table_elec, db_lock, fil,
                   horloge, dequeVars, lock, webVars, pzemVars, dhtVars>>

----------------------------------------------------------------------------
(* PZEMSensor.lire_mesure on the hardware path, in both files *)

\* x << 16 on a Python int
DecalerGauche16(x) == x * 65536

\* a | b on non-negative Python ints
RECURSIVE OuBinaire(_, _)
OuBinaire(a, b) ==
    IF a = 0 THEN b
    ELSE IF b = 0 THEN a
    ELSE (IF (a % 2 = 1) \/ (b % 2 = 1) THEN 1 ELSE 0)
         + 2 * OuBinaire(a \div 2, b \div 2)

\* The register blocks the trials answer with. Each is a 16-bit input register;
\* the registers of a pair stay below 2^15 so that a pair fits TLC's integers
\* whichever register is taken as the high word.
RegsExemple == <<2300, 1500, 0, 500, 0, 1000, 0, 500, 95, 0>>

RegsEssai ==
    {<<r0, r1, r2, r3, r4, r5, r6, r7, r8, r9>> :
        r0 \in {2300, 65535}, r1 \in {0, 1500, 32767}, r2 \in {0, 1, 32767},
        r3 \in {500, 7}, r4 \in {0, 3}, r5 \in {1000}, r6 \in {0, 2},
        r7 \in {500}, r8 \in {95}, r9 \in {0, 1}}

\* Outcome of one "read input registers" transaction: an answer, an error
\* answer (isError() in v1) or an exception of the transport
TransactionsModbus ==
    {[issue |-> "ok", registers |-> r] : r \in RegsEssai}
    \cup {[issue |-> i, registers |-> <<>>] : i \in {"erreur", "exception"}}

\* v1, lines 388-404. The fields hold the numerator of the value the code
\* computes: tension = regs[0] / 10.0 is kept in tenths of a volt, courant in
\* thousandths of an ampere, puissance in tenths of a watt, energie in
\* thousandths of a kWh, frequence in tenths of a hertz, facteur_puissance in
\* hundredths. round(x, 2) and round(x, 3) leave such values as they are.
DecoderV1(r) ==
    [type |-> "electrique", programme |-> "v1",
     tension |-> r[1],
     courant |-> OuBinaire(DecalerGauche16(r[2]), r[3]),
     puissance |-> OuBinaire(DecalerGauche16(r[4]), r[5]),
     energie |-> OuBinaire(DecalerGauche16(r[6]), r[7]),
     frequence |-> r[8],
     facteur_puissance |-> r[9]]

\* v2, lines 384-401, same units; energy_Wh is in Wh
DecoderV2(r) ==
    [type |-> "electrique", programme |-> "v2",
     voltage_V |-> r[1],
     current_A |-> r[2] + DecalerGauche16(r[3]),
     power_W |-> r[4] + DecalerGauche16(r[5]),
     energy_Wh |-> r[6] + DecalerGauche16(r[7]),
     frequency_Hz |-> r[8],
     power_factor |-> r[9],
     alarm |-> r[10]]

\* v1 PZEMSensor.lire_mesure, mode_simulation False
LirePZEMV1 ==
    /\ \E t \in TransactionsModbus :
          IF t.issue = "ok"
            THEN /\ regs' = t.registers
                 /\ mesure_pzem' = DecoderV1(t.registers)
            ELSE /\ mesure_pzem' = None
                 /\ UNCHANGED regs
    /\ UNCHANGED <<pc, boucleVars, cycleVars, baseVars, dequeVars, lock, webVars,
                   pzemSimVars, pzem, dhtVars>>

\* v2 PZEMSensor.lire_mesure, self.master set
LirePZEMV2 ==
    /\ \E t \in TransactionsModbus :
          IF t.issue = "ok"
            THEN /\ regs' = t.registers
                 /\ mesure_pzem' = DecoderV2(t.registers)
            ELSE /\ mesure_pzem' = None
                 /\ UNCHANGED regs
    /\ UNCHANGED <<pc, boucleVars, cycleVars, baseVars, dequeVars, lock, webVars,
                   pzemSimVars, pzem, dhtVars>>

\* the fields of a decoded sample, whichever file built it
Tension(m) == IF m.programme = "v1" THEN m.tension ELSE m.voltage_V
Courant(m) == IF m.programme = "v1" THEN m.courant ELSE m.current_A
Puissance(m) == IF m.programme = "v1" THEN m.puissance ELSE m.power_W
Energie(m) == IF m.programme = "v1" THEN m.energie ELSE m.energy_Wh
Frequence(m) == IF m.programme = "v1" THEN m.frequence ELSE m.frequency_Hz
FacteurPuissance(m) == IF m.programme = "v1" THEN m.facteur_puissance ELSE m.power_factor

----------------------------------------------------------------------------
(* v1 PZEMSensor.lire_mesure in simulation mode *)

\* The draws of one read that the trials take, in the units of the variables:
\* random.uniform(-2, 2) volts in tenths, random.uniform(-0.1, 0.1) amperes in
\* tenths, random.uniform(-0.5, 0.5) hertz in hundredths and
\* random.uniform(-0.05, 0.05) of power factor in hundredths
PerturbationsPZEM ==
    {<<20, -1, -50, -5>>, <<-20, 1, 50, 5>>, <<0, 0, 0, 0>>}

\* BornerCourant without the max(0, ...)
BornerCourantSansPlancher(x) == IF x > 100 THEN 100 ELSE x

\* max(200, min(250, self.sim_tension)), in tenths of a volt
BornerTension(x) == IF x < 2000 THEN 2000 ELSE IF x > 2500 THEN 2500 ELSE x

\* max(0, min(10, self.sim_courant)), in tenths of an ampere
BornerCourant(x) == IF x < 0 THEN 0 ELSE IF x > 100 THEN 100 ELSE x

\* round(n / d) to the nearest integer, a half going to the even one, as
\* Python's round does; n >= 0, d > 0 and even
ArrondirQuotient(n, d) ==
    LET q == n \div d
        r == n % d
    IN  IF 2 * r > d \/ (2 * r = d /\ q % 2 = 1) THEN q + 1 ELSE q

\* lire_mesure with mode_simulation: perturb and clamp sim_tension and
\* sim_courant, puissance = tension * courant (tenths of a volt times tenths of
\* an ampere: hundredths of a watt), sim_energie += puissance / 3600000, and
\* the sample is built with round(energie, 3): thousandths of a kWh are
\* sim_energie / 360000 in the unit of the variable. The sample holds tension
\* in tenths of a volt, courant in thousandths of an ampere, puissance in
\* hundredths of a watt, frequence in hundredths of a hertz and
\* facteur_puissance in hundredths.
LirePZEMSimulation ==
    /\ lectures_sim < MaxLecturesSim
    /\ lectures_sim' = lectures_sim + 1
    /\ \E d \in PerturbationsPZEM :
          /\ sim_tension' = BornerTension(sim_tension + d[1])
          /\ sim_courant' = BornerCourant(sim_courant + d[2])
          /\ sim_energie' = sim_energie + sim_tension' * sim_courant'
          /\ mesure_pzem' =
                [type |-> "electrique", programme |-> "v1",
                 tension |-> sim_tension',
                 courant |-> sim_courant' * 100,
                 puissance |-> sim_tension' * sim_courant',
                 energie |-> ArrondirQuotient(sim_energie', 360000),
                 frequence |-> 5000 + d[3],
                 facteur_puissance |-> 95 + d[4]]
    /\ UNCHANGED <<pc, boucleVars, cycleVars, baseVars, dequeVars, lock, webVars,
                   regs, pzem, dhtVars>>

----------------------------------------------------------------------------
(* v1 DHT22Sensor.lire_mesure in simulation mode; values in tenths *)

\* random.uniform(-0.5, 0.5) degrees and random.uniform(-2, 2) percent, in
\* tenths: the draws the trials take
PerturbationsTemp == {-5, 0, 5}

PerturbationsHum == {-20, -15, 0, 15, 20}

\* Min that lets its second argument through
MinSansPlafond(a, b) == b

Min(a, b) == IF a < b THEN a ELSE b

Max(a, b) == IF a > b THEN a ELSE b

\* _calculer_point_rosee: math.log(hum / 100.0) raises ValueError when
\* hum <= 0, the division by (b + temp) raises when temp = -237.7; otherwise
\* the Magnus value, kept as a term
PointRoseeLeve(temp, hum) == hum <= 0 \/ temp = -2377

PointRosee(temp, hum) == <<"magnus", temp, hum>>

\* _calculer_indice_chaleur: temp below 27 degrees is returned as it is,
\* otherwise the Rothfusz polynomial, kept as a term
IndiceChaleur(temp, hum) ==
    IF temp < 270 THEN <<"temp", temp>> ELSE <<"rothfusz", temp, hum>>

\* lire_mesure with mode_simulation: perturb, clamp, derive, build the sample;
\* except Exception: return None
LireDHT22Simulation ==
    /\ \E dt \in PerturbationsTemp, dh \in PerturbationsHum :
          /\ sim_temp' = Max(-100, Min(500, sim_temp + dt))
          /\ sim_hum' = Max(0, Min(1000, sim_hum + dh))
    /\ mesure_dht' =
          IF PointRoseeLeve(sim_temp', sim_hum')
            THEN None
            ELSE [type |-> "environnement",
                  temperature |-> sim_temp',
                  humidite |-> sim_hum',
                  point_rosee |-> PointRosee(sim_temp', sim_hum'),
                  indice_chaleur |-> IndiceChaleur(sim_temp', sim_hum')]
    /\ UNCHANGED <<pc, boucleVars, cycleVars, baseVars, dequeVars, lock, webVars, pzemVars,
                   dhtMatVars>>

----------------------------------------------------------------------------
(* DHT22Sensor on the hardware path, in both files: construction, the      *)
(* derived-metric functions and lire_mesure.  Temperatures and humidities  *)
(* are in thousandths of a degree and of a percent.                        *)

\* a float
Nombre(x) == [type |-> "nombre", valeur |-> x]

\* an exception leaving a function
Exception(nom) == [type |-> "exception", nom |-> nom]

\* the gpio_mapping of v2; board has a D<n> attribute for each of them
BrochesSupportees == {23, 24, 4, 17, 27, 22}

\* the gpio_pin values the trials construct with
Broches == {4, 99}

\* v1 DHT22Sensor.__init__: simulation unless the library was imported, board
\* has the pin and the driver could be created; no exception leaves it
ConstruireDHT22V1 ==
    /\ pc = "construire_dht"
    /\ \E broche \in Broches, disponible \in BOOLEAN, pilote \in {"ok", "exception"} :
          dht' = [programme |-> "v1",
                  mode |-> IF disponible /\ broche \in BrochesSupportees /\ pilote = "ok"
                             THEN "materiel" ELSE "simulation",
                  broche |-> broche]
    /\ pc' = "construire_pzem"
    /\ UNCHANGED <<boucleVars, cycleVars, baseVars, dequeVars, lock, webVars, pzemVars,
                   sim_temp, sim_hum, mesure_dht, issue_dht, appel>>

\* v2 DHT22Sensor.__init__: ValueError for a pin outside gpio_mapping, which
\* leaves SystemeSurveillance.__init__ too; self.dht = None when the driver
\* could not be created
ConstruireDHT22V2 ==
    /\ pc = "construire_dht"
    /\ \E broche \in Broches, pilote \in {"ok", "exception"} :
          IF broche \notin BrochesSupportees
            THEN /\ dht' = [programme |-> "v2", mode |-> "aucun", broche |-> broche]
                 /\ pc' = "echec_construction"
            ELSE /\ dht' = [programme |-> "v2",
                            mode |-> IF pilote = "ok" THEN "materiel" ELSE "absent",
                            broche |-> broche]
                 /\ pc' = "construire_pzem"
    /\ UNCHANGED <<boucleVars, cycleVars, baseVars, dequeVars, lock, webVars, pzemVars,
                   sim_temp, sim_hum, mesure_dht, issue_dht, appel>>

\* the arguments the trials call the derived-metric functions with
TemperaturesEssai == {-5000, 20000, 26990, 27000, 32000}

HumiditesEssai == {-1000, 0, 50000, 70000, 90000}

\* round(x, 2) of a value in thousandths: the nearest multiple of ten
\* thousandths, a half going to the even hundredth
Arrondir2(x) ==
    IF x >= 0 THEN 10 * ArrondirQuotient(x, 10)
    ELSE -10 * ArrondirQuotient(-x, 10)

\* round(v, 2) of the outcome of a formula: of a number, or of a term that
\* stands for a Magnus or Rothfusz value
Arrondi2(v) ==
    IF v.type = "nombre" THEN Nombre(Arrondir2(v.valeur))
    ELSE [type |-> "arrondi", de |-> v]

\* v1 _calculer_point_rosee: math.log(hum / 100.0) raises ValueError for
\* hum <= 0 and nothing in the function catches it; otherwise the Magnus
\* value, kept as a term
CalculerPointRoseeV1(temp, hum) ==
    IF hum <= 0 THEN Exception("ValueError")
    ELSE [type |-> "magnus", temp |-> temp, hum |-> hum]

\* v2 calculer_point_rosee: the same inside try/except, 0.0 on any exception,
\* the value rounded otherwise
CalculerPointRoseeV2(temp, hum) ==
    IF hum <= 0 THEN Nombre(0)
    ELSE Arrondi2([type |-> "magnus", temp |-> temp, hum |-> hum])

\* The nine coefficients of the heat-index polynomial, in the order of the
\* source: sign, magnitude times 10^15 as digits in base 1000 (lowest first),
\* and the powers a of T and b of H that the coefficient multiplies
Coefficients ==
    <<[signe |-> -1, limbes |-> <<0, 560, 755, 694, 784, 8>>, a |-> 0, b |-> 0],
      [signe |-> 1, limbes |-> <<0, 0, 110, 394, 611, 1>>, a |-> 1, b |-> 0],
      [signe |-> 1, limbes |-> <<0, 890, 838, 548, 338, 2>>, a |-> 0, b |-> 1],
      [signe |-> -1, limbes |-> <<0, 0, 50, 116, 146>>, a |-> 1, b |-> 1],
      [signe |-> -1, limbes |-> <<0, 0, 94, 308, 12>>, a |-> 2, b |-> 0],
      [signe |-> -1, limbes |-> <<800, 777, 827, 424, 16>>, a |-> 0, b |-> 2],
      [signe |-> 1, limbes |-> <<0, 0, 732, 211, 2>>, a |-> 2, b |-> 1],
      [signe |-> 1, limbes |-> <<0, 0, 460, 725>>, a |-> 1, b |-> 2],
      [signe |-> -1, limbes |-> <<0, 0, 582, 3>>, a |-> 2, b |-> 2]>>

\* a number in base 1000, lowest digit first, times a natural number below 10^6
RECURSIVE Propager(_, _)
Propager(s, retenue) ==
    IF s = <<>>
      THEN IF retenue = 0 THEN <<>>
           ELSE <<retenue % 1000>> \o Propager(<<>>, retenue \div 1000)
      ELSE LET x == Head(s) + retenue
           IN  <<x % 1000>> \o Propager(Tail(s), x \div 1000)

Multiplier(s, k) == Propager([i \in 1..Len(s) |-> s[i] * k], 0)

RECURSIVE MultiplierParTous(_, _)
MultiplierParTous(s, ks) ==
    IF ks = <<>> THEN s ELSE MultiplierParTous(Multiplier(s, Head(ks)), Tail(ks))

\* k copies of x
Copies(x, k) == [i \in 1..k |-> x]

Abs(x) == IF x < 0 THEN -x ELSE x

\* One term c * T^a * H^b of the polynomial, in millionths of a degree, for T
\* and H in thousandths: |c| * 10^15 times a factors T, b factors |H| and
\* 4 - a - b factors 1000 is the term times 10^27; its digits from the eighth
\* on are the millionths. The fraction of a millionth is dropped.
Terme(c, temp, hum) ==
    LET produit == MultiplierParTous(c.limbes,
                       Copies(temp, c.a) \o Copies(Abs(hum), c.b)
                           \o Copies(1000, 4 - c.a - c.b))
        n == Len(produit)
        grandeur == (IF n >= 8 THEN produit[8] ELSE 0)
                    + (IF n >= 9 THEN produit[9] * 1000 ELSE 0)
                    + (IF n >= 10 THEN produit[10] * 1000000 ELSE 0)
        signe == IF hum < 0 /\ c.b = 1 THEN -c.signe ELSE c.signe
    IN  signe * grandeur

RECURSIVE SommeTermes(_, _, _)
SommeTermes(cs, temp, hum) ==
    IF cs = <<>> THEN 0
    ELSE Terme(Head(cs), temp, hum) + SommeTermes(Tail(cs), temp, hum)

\* Rothfusz without its last term, the one in T*T*H*H
RothfuszSansDernierTerme(temp, hum) ==
    SommeTermes(SubSeq(Coefficients, 1, 8), temp, hum)

\* The heat-index polynomial of both files (v1 lines 273-277, v2 lines
\* 282-290) for temp >= 0, in millionths of a degree and to within 9
\* millionths of the exact sum
Rothfusz(temp, hum) == SommeTermes(Coefficients, temp, hum)

\* CalculerIndiceChaleurV1 with the threshold at 26 degrees
CalculerIndiceChaleurV1Seuil26(temp, hum) ==
    IF temp < 26000 THEN Nombre(temp)
    ELSE [type |-> "rothfusz", temp |-> temp, hum |-> hum,
          millioniemes |-> Rothfusz(temp, hum)]

\* v1 _calculer_indice_chaleur: temp below 27 is returned as it is, otherwise
\* the Rothfusz polynomial: its arguments and its value in millionths
CalculerIndiceChaleurV1(temp, hum) ==
    IF temp < 27000 THEN Nombre(temp)
    ELSE [type |-> "rothfusz", temp |-> temp, hum |-> hum,
          millioniemes |-> Rothfusz(temp, hum)]

\* v2 calculer_indice_chaleur: temp below 27 is returned as it is, otherwise
\* the polynomial rounded to 2 decimals
CalculerIndiceChaleurV2(temp, hum) ==
    IF temp < 27000 THEN Nombre(temp)
    ELSE Arrondi2([type |-> "rothfusz", temp |-> temp, hum |-> hum,
                   millioniemes |-> Rothfusz(temp, hum)])

\* a call of the dew-point function of either file
AppelerPointRosee ==
    /\ \E programme \in {"v1", "v2"}, temp \in TemperaturesEssai, hum \in HumiditesEssai :
          appel' = [fonction |-> "point_rosee", programme |-> programme,
                    temp |-> temp, hum |-> hum,
                    resultat |-> IF programme = "v1"
                                   THEN CalculerPointRoseeV1(temp, hum)
                                   ELSE CalculerPointRoseeV2(temp, hum)]
    /\ UNCHANGED <<pc, boucleVars, cycleVars, baseVars, dequeVars, lock, webVars, pzemVars,
                   sim_temp, sim_hum, mesure_dht, dht, issue_dht>>

\* a call of the heat-index function of either file
AppelerIndiceChaleur ==
    /\ \E programme \in {"v1", "v2"}, temp \in TemperaturesEssai, hum \in HumiditesEssai :
          appel' = [fonction |-> "indice_chaleur", programme |-> programme,
                    temp |-> temp, hum |-> hum,
                    resultat |-> IF programme = "v1"
                                   THEN CalculerIndiceChaleurV1(temp, hum)
                                   ELSE CalculerIndiceChaleurV2(temp, hum)]
    /\ UNCHANGED <<pc, boucleVars, cycleVars, baseVars, dequeVars, lock, webVars, pzemVars,
                   sim_temp, sim_hum, mesure_dht, dht, issue_dht>>

\* What the adafruit_dht driver answers to one read of .temperature and
\* .humidity: two values, each possibly None, or an exception. The DHT22
\* reports tenths, so the values are multiples of 100 thousandths.
IssuesDHT ==
    {[leve |-> "aucune", temperature |-> t, humidity |-> h] :
        t \in {Null, Nombre(-5000), Nombre(21500), Nombre(30000)},
        h \in {Null, Nombre(0), Nombre(55000)}}
    \cup {[leve |-> e, temperature |-> Null, humidity |-> Null] :
            e \in {"RuntimeError", "OSError"}}

\* v1 lire_mesure, hardware branch (lines 292-313): None when a value is
\* missing, None from "except Exception" when the driver or the dew point
\* raised, otherwise the sample with its four fields rounded
LectureDHT22V1(issue) ==
    IF issue.leve # "aucune" THEN None
    ELSE IF issue.temperature = Null \/ issue.humidity = Null THEN None
    ELSE LET temp == issue.temperature.valeur
             hum == issue.humidity.valeur
             point_rosee == CalculerPointRoseeV1(temp, hum)
             indice_chaleur == CalculerIndiceChaleurV1(temp, hum)
         IN  IF point_rosee.type = "exception" THEN None
             ELSE [type |-> "environnement", programme |-> "v1",
                   temperature |-> Nombre(Arrondir2(temp)),
                   humidite |-> Nombre(Arrondir2(hum)),
                   point_rosee |-> Arrondi2(point_rosee),
                   indice_chaleur |-> Arrondi2(indice_chaleur)]

\* LectureDHT22V2 without the test of the two values
LectureDHT22V2SansControle(issue) ==
    IF issue.leve # "aucune" THEN None
    ELSE [type |-> "environnement", programme |-> "v2",
          temperature_C |-> issue.temperature,
          humidity_pct |-> issue.humidity,
          point_rosee |-> Nombre(0),
          indice_chaleur |-> issue.temperature]

\* v2 lire_mesure with self.dht set (lines 301-324): None when a value is
\* missing or the driver raised, otherwise the sample; temperature and
\* humidity are rounded, the two derived fields are taken as the functions
\* returned them
LectureDHT22V2(issue) ==
    IF issue.leve # "aucune" THEN None
    ELSE IF issue.temperature = Null \/ issue.humidity = Null THEN None
    ELSE LET temperature == issue.temperature.valeur
             humidite == issue.humidity.valeur
         IN  [type |-> "environnement", programme |-> "v2",
              temperature_C |-> Nombre(Arrondir2(temperature)),
              humidity_pct |-> Nombre(Arrondir2(humidite)),
              point_rosee |-> CalculerPointRoseeV2(temperature, humidite),
              indice_chaleur |-> CalculerIndiceChaleurV2(temperature, humidite)]

\* v1 DHT22Sensor.lire_mesure, mode_simulation False
LireDHT22V1Materiel ==
    /\ dht.programme = "v1"
    /\ dht.mode = "materiel"
    /\ \E issue \in IssuesDHT :
          /\ issue_dht' = issue
          /\ mesure_dht' = LectureDHT22V1(issue)
    /\ UNCHANGED <<pc, boucleVars, cycleVars, baseVars, dequeVars, lock, webVars, pzemVars,
                   sim_temp, sim_hum, dht, appel>>

\* v2 DHT22Sensor.lire_mesure with self.dht set
LireDHT22V2Materiel ==
    /\ dht.programme = "v2"
    /\ dht.mode = "materiel"
    /\ \E issue \in IssuesDHT :
          /\ issue_dht' = issue
          /\ mesure_dht' = LectureDHT22V2(issue)
    /\ UNCHANGED <<pc, boucleVars, cycleVars, baseVars, dequeVars, lock, webVars, pzemVars,
                   sim_temp, sim_hum, dht, appel>>

\* v2 DHT22Sensor.lire_mesure with self.dht None: "if not self.dht: return None"
LireDHT22V2Absent ==
    /\ dht.programme = "v2"
    /\ dht.mode = "absent"
    /\ mesure_dht' = None
    /\ UNCHANGED <<pc, boucleVars, cycleVars, baseVars, dequeVars, lock, webVars, pzemVars,
                   sim_temp, sim_hum, dht, issue_dht, appel>>

\* the fields of an environmental sample of the hardware path, whichever file
\* built it
Temperature(m) == IF m.programme = "v1" THEN m.temperature ELSE m.temperature_C
Humidite(m) == IF m.programme = "v1" THEN m.humidite ELSE m.humidity_pct

----------------------------------------------------------------------------
(* PZEMSensor in both files: construction and the state of the serial link *)

\* v1 PZEMSensor.__init__: simulation unless the library was imported and
\* client.connect() returned True; a connection that is refused or raises
\* sets mode_simulation
ConstruirePZEMV1 ==
    /\ pc = "construire_pzem"
    /\ dht.programme = "v1"
    /\ \E disponible \in BOOLEAN, connexion \in {"connecte", "refuse", "exception"} :
          pzem' = [programme |-> "v1",
                   mode |-> IF disponible /\ connexion = "connecte"
                              THEN "materiel" ELSE "simulation",
                   liaison |-> IF ~disponible THEN "aucune"
                               ELSE IF connexion = "connecte" THEN "ouverte"
                               ELSE "en_panne"]
    /\ pc' = "repos"
    /\ UNCHANGED <<boucleVars, cycleVars, baseVars, dequeVars, lock, webVars,
                   regs, mesure_pzem, pzemSimVars, dhtVars>>

\* v2 PZEMSensor.__init__: self.master = None when the serial port could not
\* be opened
ConstruirePZEMV2 ==
    /\ pc = "construire_pzem"
    /\ dht.programme = "v2"
    /\ \E connexion \in {"ouvert", "exception"} :
          pzem' = [programme |-> "v2",
                   mode |-> IF connexion = "ouvert" THEN "materiel" ELSE "absent",
                   liaison |-> IF connexion = "ouvert" THEN "ouverte" ELSE "en_panne"]
    /\ pc' = "repos"
    /\ UNCHANGED <<boucleVars, cycleVars, baseVars, dequeVars, lock, webVars,
                   regs, mesure_pzem, pzemSimVars, dhtVars>>

\* the serial link of a sensor in hardware mode fails and stays failed: from
\* then on every transaction reports an error or raises
PanneLiaison ==
    /\ pzem.mode = "materiel"
    /\ pzem.liaison = "ouverte"
    /\ pzem' = [pzem EXCEPT !.liaison = "en_panne"]
    /\ UNCHANGED <<pc, boucleVars, cycleVars, baseVars, dequeVars, lock, webVars,
                   regs, mesure_pzem, pzemSimVars, dhtVars>>

\* v2 PZEMSensor.lire_mesure with self.master None: "if not self.master: return None"
LirePZEMV2SansMaitre ==
    /\ mesure_pzem' = None
    /\ UNCHANGED <<pc, boucleVars, cycleVars, baseVars, dequeVars, lock, webVars,
                   regs, pzemSimVars, pzem, dhtVars>>

\* the register blocks the device answers with in the runs of a whole instance
RegsInstance == {RegsExemple, <<2300, 1500, 0, 500, 0, 1000, 0, 500, 95, 1>>}

\* PZEMSensor.lire_mesure of the instance that was constructed: the branch
\* its file and its mode select; on a failed link no transaction succeeds
LireElectrique ==
    \/ /\ pzem.programme = "v1" /\ pzem.mode = "simulation"
       /\ LirePZEMSimulation
    \/ /\ pzem.programme = "v1" /\ pzem.mode = "materiel"
       /\ LirePZEMV1
       /\ mesure_pzem' = None \/ regs' \in RegsInstance
       /\ pzem.liaison = "en_panne" => mesure_pzem' = None
    \/ /\ pzem.programme = "v2" /\ pzem.mode = "materiel"
       /\ LirePZEMV2
       /\ mesure_pzem' = None \/ regs' \in RegsInstance
       /\ pzem.liaison = "en_panne" => mesure_pzem' = None
    \/ /\ pzem.programme = "v2" /\ pzem.mode = "absent"
       /\ LirePZEMV2SansMaitre

\* DHT22Sensor.lire_mesure of the instance that was constructed
LireEnvironnement ==
    \/ /\ dht.programme = "v1" /\ dht.mode = "simulation"
       /\ LireDHT22Simulation
    \/ LireDHT22V1Materiel
    \/ LireDHT22V2Materiel
    \/ LireDHT22V2Absent

----------------------------------------------------------------------------
(* cycle_mesure of a constructed instance: the two reads are the calls of  *)
(* the sensors' lire_mesure                                                *)

\* mesure_env = self.dht22.lire_mesure(): the call
AppelerLireEnv ==
    /\ pc = "lire_env"
    /\ mesure_dht = NonLu
    /\ LireEnvironnement
    /\ Len(table_env) >= MaxLignesInstance => mesure_dht' = None

\* mesure_env = self.dht22.lire_mesure(): the return; if mesure_env:
RetournerLireEnv ==
    /\ pc = "lire_env"
    /\ mesure_dht # NonLu
    /\ mesure_env' = mesure_dht
    /\ mesure_dht' = NonLu
    /\ pc' = IF EstMesure(mesure_dht) THEN "inserer_env" ELSE "lire_elec"
    /\ UNCHANGED <<boucleVars, mesure_elec, horodatage, baseVars, dequeVars, lock, webVars,
                   pzemVars, sim_temp, sim_hum, dhtMatVars>>

\* mesure_elec = self.pzem.lire_mesure(): the call
AppelerLireElec ==
    /\ pc = "lire_elec"
    /\ mesure_pzem = NonLu
    /\ LireElectrique
    /\ Len(table_elec) >= MaxLignesInstance => mesure_pzem' = None

\* mesure_elec = self.pzem.lire_mesure(): the return; if mesure_elec:
RetournerLireElec ==
    /\ pc = "lire_elec"
    /\ mesure_pzem # NonLu
    /\ mesure_elec' = mesure_pzem
    /\ mesure_pzem' = NonLu
    /\ pc' = IF EstMesure(mesure_pzem) THEN "inserer_elec" ELSE "afficher"
    /\ UNCHANGED <<boucleVars, mesure_env, horodatage, baseVars, dequeVars, lock, webVars,
                   regs, pzemSimVars, pzem, dhtVars>>

----------------------------------------------------------------------------
(* api_donnees -> obtenir_donnees_dashboard, run by a web thread *)

\* api_donnees calls systeme.obtenir_donnees_dashboard()
AppelDashboard ==
    /\ wpc = "repos"
    /\ wpc' = "verrou"
    /\ UNCHANGED <<pc, boucleVars, cycleVars, baseVars, dequeVars, lock, reponse,
                   instantane, visiteurs,
                   pzemVars, dhtVars>>

\* PrendreVerrou without the with-block: the copies are taken unlocked
PrendreVerrouSansVerrou ==
    /\ wpc = "verrou"
    /\ instantane' = [environnement |-> dernieres_mesures_env,
                      electrique |-> dernieres_mesures_elec,
                      ajout_en_cours |-> pc \in {"ajouter_env", "ajouter_elec"}]
    /\ wpc' = "copie_env"
    /\ UNCHANGED <<pc, boucleVars, cycleVars, baseVars, dequeVars, lock, reponse,
                   visiteurs,
                   pzemVars, dhtVars>>

\* with self.lock: (acquire)
PrendreVerrou ==
    /\ wpc = "verrou"
    /\ lock = "libre"
    /\ lock' = "web"
    /\ instantane' = [environnement |-> dernieres_mesures_env,
                      electrique |-> dernieres_mesures_elec,
                      ajout_en_cours |-> pc \in {"ajouter_env", "ajouter_elec"}]
    /\ wpc' = "copie_env"
    /\ UNCHANGED <<pc, boucleVars, cycleVars, baseVars, dequeVars, reponse,
                   visiteurs,
                   pzemVars, dhtVars>>

\* 'mesures_environnement': list(self.dernieres_mesures_env)
CopierEnv ==
    /\ wpc = "copie_env"
    /\ reponse' = [reponse EXCEPT !.mesures_environnement = dernieres_mesures_env]
    /\ wpc' = "copie_elec"
    /\ UNCHANGED <<pc, boucleVars, cycleVars, baseVars, dequeVars, lock, instantane,
                   visiteurs,
                   pzemVars, dhtVars>>

\* 'mesures_electriques': list(self.dernieres_mesures_elec)
CopierElec ==
    /\ wpc = "copie_elec"
    /\ reponse' = [reponse EXCEPT !.mesures_electriques = dernieres_mesures_elec]
    /\ wpc' = "statistiques"
    /\ UNCHANGED <<pc, boucleVars, cycleVars, baseVars, dequeVars, lock, instantane,
                   visiteurs,
                   pzemVars, dhtVars>>

\* 'statistiques': self.db.obtenir_statistiques(heures=24)
Statistiques ==
    /\ wpc = "statistiques"
    /\ reponse' = [reponse EXCEPT !.statistiques =
                      [environnement |-> NbMesures(table_env, horloge),
                       electrique |-> NbMesures(table_elec, horloge)]]
    /\ wpc' = "retour"
    /\ UNCHANGED <<pc, boucleVars, cycleVars, baseVars, dequeVars, lock, instantane,
                   visiteurs,
                   pzemVars, dhtVars>>

\* 'timestamp': datetime.now().isoformat(); return {...}: the with-block
\* releases self.lock, api_donnees holds the dict
Retourner ==
    /\ wpc = "retour"
    /\ reponse' = [reponse EXCEPT !.timestamp = horloge]
    /\ lock' = IF lock = "web" THEN "libre" ELSE lock
    /\ wpc' = "retourne"
    /\ UNCHANGED <<pc, boucleVars, cycleVars, baseVars, dequeVars, instantane,
                   visiteurs,
                   pzemVars, dhtVars>>

\* return jsonify(...): the response is sent and the dict is dropped
Repondre ==
    /\ wpc = "retourne"
    /\ reponse' = ReponseVide
    /\ wpc' = "repos"
    /\ UNCHANGED <<pc, boucleVars, cycleVars, baseVars, dequeVars, lock, instantane,
                   visiteurs,
                   pzemVars, dhtVars>>

----------------------------------------------------------------------------
(* The two locks together: cycle_mesure calling inserer_mesure_* under      *)
(* DatabaseManager.lock and appending under SystemeSurveillance.lock, and   *)
(* the threads of the web server serving /api/donnees and /api/statistiques *)

\* self.db.inserer_mesure_environnement(mesure_env) or
\* self.db.inserer_mesure_electrique(mesure_elec): the call
AppelerInsererCycle ==
    /\ pc \in {"inserer_env", "inserer_elec"}
    /\ fil["boucle"].pc = "repos"
    /\ fil' = [fil EXCEPT !["boucle"] =
                 [pc |-> "verrou",
                  mesure |-> IF pc = "inserer_env" THEN mesure_env ELSE mesure_elec,
                  erreur |-> FALSE]]
    /\ pc' = IF pc = "inserer_env" THEN "dans_inserer_env" ELSE "dans_inserer_elec"
    /\ UNCHANGED <<boucleVars, cycleVars, table_env, table_elec, schema, db_lock,
                   horloge, resultat, dequeVars, lock, webVars, pzemVars, dhtVars>>

\* inserer_mesure_* returns and cycle_mesure goes on to its with self.lock:,
\* or it raised sqlite3.Error, which nothing catches before the finally block
RetournerInsererCycle ==
    /\ pc \in {"dans_inserer_env", "dans_inserer_elec"}
    /\ fil["boucle"].pc = "repos"
    /\ IF fil["boucle"].erreur
         THEN /\ exception' = "sqlite3.Error"
              /\ pc' = "finally"
         ELSE /\ pc' = IF pc = "dans_inserer_env" THEN "verrou_env" ELSE "verrou_elec"
              /\ UNCHANGED exception
    /\ fil' = [fil EXCEPT !["boucle"] = FilAuRepos]
    /\ UNCHANGED <<running, demarrages, cycleVars, table_env, table_elec, schema,
                   db_lock, horloge, resultat, dequeVars, lock, webVars, pzemVars,
                   dhtVars>>

\* a request for /api/donnees or /api/statistiques is given to a thread
Requete(v) ==
    /\ visiteurs[v].pc = "repos"
    /\ \/ visiteurs' = [visiteurs EXCEPT ![v] = [pc |-> "verrou", route |-> "api_donnees"]]
       \/ visiteurs' = [visiteurs EXCEPT ![v] =
                          [pc |-> "stats_24h", route |-> "api_statistiques"]]
    /\ UNCHANGED <<pc, boucleVars, cycleVars, baseVars, dequeVars, lock, wpc, reponse,
                   instantane, pzemVars, dhtVars>>

\* obtenir_donnees_dashboard: with self.lock: (acquire)
VerrouInstantane(v) ==
    /\ visiteurs[v].pc = "verrou"
    /\ lock = "libre"
    /\ lock' = v
    /\ visiteurs' = [visiteurs EXCEPT ![v].pc = "copies"]
    /\ UNCHANGED <<pc, boucleVars, cycleVars, baseVars, dequeVars, wpc, reponse,
                   instantane, pzemVars, dhtVars>>

\* obtenir_donnees_dashboard inside the with-block: the two list(...) copies,
\* then self.db.obtenir_statistiques(heures=24), which opens a connection and
\* runs its two SELECTs without taking DatabaseManager.lock, then the return,
\* which releases self.lock
Instantane(v) ==
    /\ \/ /\ visiteurs[v].pc = "copies"
          /\ visiteurs' = [visiteurs EXCEPT ![v].pc = "statistiques"]
          /\ UNCHANGED lock
       \/ /\ visiteurs[v].pc = "statistiques"
          /\ visiteurs' = [visiteurs EXCEPT ![v].pc = "retour"]
          /\ UNCHANGED lock
       \/ /\ visiteurs[v].pc = "retour"
          /\ visiteurs' = [visiteurs EXCEPT ![v] = VisiteurAuRepos]
          /\ lock' = "libre"
    /\ UNCHANGED <<pc, boucleVars, cycleVars, baseVars, dequeVars, wpc, reponse,
                   instantane, pzemVars, dhtVars>>

\* api_statistiques: obtenir_statistiques(heures=24), then
\* obtenir_statistiques(heures=24*7); neither takes a lock
ApiStatistiques(v) ==
    /\ \/ /\ visiteurs[v].pc = "stats_24h"
          /\ visiteurs' = [visiteurs EXCEPT ![v].pc = "stats_7j"]
       \/ /\ visiteurs[v].pc = "stats_7j"
          /\ visiteurs' = [visiteurs EXCEPT ![v] = VisiteurAuRepos]
    /\ UNCHANGED <<pc, boucleVars, cycleVars, baseVars, dequeVars, lock, wpc, reponse,
                   instantane, pzemVars, dhtVars>>

\* a thread of the web server
Visiteur(v) ==
    \/ Requete(v)
    \/ VerrouInstantane(v)
    \/ Instantane(v)
    \/ ApiStatistiques(v)

----------------------------------------------------------------------------
(* Specifications *)

Acquisition(max) ==
    \/ TantQue
    \/ LireEnv(max)
    \/ InsererEnv
    \/ VerrouEnv
    \/ AjouterEnv
    \/ LireElec(max)
    \/ InsererElec
    \/ VerrouElec
    \/ AjouterElec
    \/ Afficher
    \/ Dormir
    \/ Finally

Web ==
    \/ AppelDashboard
    \/ PrendreVerrou
    \/ CopierEnv
    \/ CopierElec
    \/ Statistiques
    \/ Retourner
    \/ Repondre

\* the whole system: the loop with its faults, the stop signals, a web thread
Next ==
    \/ Demarrer
    \/ Redemarrer
    \/ Acquisition(MaxEchantillons)
    \/ InsererEnvErreur
    \/ InsererElecErreur
    \/ KeyboardInterrupt
    \/ Arreter
    \/ Web

Spec == Init /\ [][Next]_vars

\* the loop on a healthy store until Ctrl+C, long enough to fill both deques
NextRemplissage ==
    \/ Demarrer
    \/ Acquisition(MaxRemplissage)
    \/ KeyboardInterrupt

SpecRemplissage == Init /\ [][NextRemplissage]_vars

\* one run of the program: __main__ calls boucle_surveillance once
NextUnAppel ==
    \/ Demarrer
    \/ Acquisition(MaxEchantillons)
    \/ InsererEnvErreur
    \/ InsererElecErreur
    \/ KeyboardInterrupt
    \/ Arreter
    \/ Web

\* one run of the program under a scheduler that lets each thread run: the
\* loop thread and the web thread keep taking steps, and a thread waiting for
\* self.lock gets it when it is released again and again
SpecEquitable ==
    /\ Init
    /\ [][NextUnAppel]_vars
    /\ WF_vars(Acquisition(MaxEchantillons))
    /\ WF_vars(Web)
    /\ SF_vars(VerrouEnv)
    /\ SF_vars(VerrouElec)

\* the hardware reads of the electrical channel of both files
NextDecodage ==
    \/ LirePZEMV1
    \/ LirePZEMV2

SpecDecodage == Init /\ [][NextDecodage]_vars

\* the simulated environmental channel of v1
NextSimulation == LireDHT22Simulation

SpecSimulation == Init /\ [][NextSimulation]_vars

\* calls of inserer_mesure_* by the threads of F
Ecrire(F) ==
    \E f \in F :
        \/ AppelerInserer(f)
        \/ PrendreVerrouBase(f)
        \/ ExecuterInsert(f)
        \/ EchouerInsert(f)
        \/ Valider(f)
        \/ Sortir(f)

\* the store under two concurrent writers
NextVerrouMagasin ==
    \/ Ecrire(Fils)
    \/ AvancerHorloge

SpecVerrouMagasin == Init /\ [][NextVerrouMagasin]_vars

\* the store written by the acquisition loop and queried by the web layer
NextMagasin ==
    \/ Ecrire({"boucle"})
    \/ AvancerHorloge
    \/ ObtenirMesuresRecentes
    \/ ObtenirStatistiques

SpecMagasin == Init /\ [][NextMagasin]_vars

\* a database file over the runs of the program: each run constructs a
\* DatabaseManager on it and then appends
NextFichier ==
    \/ CreerTables
    \/ (schema.creations >= 1 /\ Ecrire({"boucle"}))
    \/ AvancerHorloge

SpecFichier == InitFichier /\ [][NextFichier]_vars

\* the DHT22 sensor of both files on the hardware path and its two formulas
NextFormules ==
    \/ ConstruireDHT22V1
    \/ ConstruireDHT22V2
    \/ AppelerPointRosee
    \/ AppelerIndiceChaleur
    \/ LireDHT22V1Materiel
    \/ LireDHT22V2Materiel
    \/ LireDHT22V2Absent

SpecFormules == InitConstruction /\ [][NextFormules]_vars

\* an instance of either file from its construction on: the sensors that were
\* constructed feed the measurement loop
NextInstance ==
    \/ ConstruireDHT22V1
    \/ ConstruireDHT22V2
    \/ ConstruirePZEMV1
    \/ ConstruirePZEMV2
    \/ PanneLiaison
    \/ Demarrer
    \/ TantQue
    \/ AppelerLireEnv
    \/ RetournerLireEnv
    \/ InsererEnv
    \/ VerrouEnv
    \/ AjouterEnv
    \/ AppelerLireElec
    \/ RetournerLireElec
    \/ InsererElec
    \/ VerrouElec
    \/ AjouterElec
    \/ Afficher
    \/ Dormir
    \/ KeyboardInterrupt
    \/ Finally

SpecInstance == InitConstruction /\ [][NextInstance]_vars

\* the simulated electrical channel of v1
NextSimulationPZEM == LirePZEMSimulation

SpecSimulationPZEM == Init /\ [][NextSimulationPZEM]_vars

\* the thread of boucle_surveillance with samples stamped by the clock
AcquisitionDatee ==
    \/ TantQue
    \/ LireEnvDate(MaxEchantillons)
    \/ InsererEnv
    \/ VerrouEnv
    \/ AjouterEnv
    \/ LireElecDate(MaxEchantillons)
    \/ InsererElec
    \/ VerrouElec
    \/ AjouterElec
    \/ Afficher
    \/ Dormir
    \/ Finally

\* one run of the program over a day: the loop with its faults, Ctrl+C, a web
\* thread serving /api/donnees, the clock moving on
NextInstantane ==
    \/ Demarrer
    \/ AcquisitionDatee
    \/ InsererEnvErreur
    \/ InsererElecErreur
    \/ KeyboardInterrupt
    \/ Web
    \/ AvancerHorloge

SpecInstantane == Init /\ [][NextInstantane]_vars

\* the thread of boucle_surveillance with its inserts going through
\* DatabaseManager.lock
AcquisitionVerrous ==
    \/ TantQue
    \/ LireEnv(MaxEchantillons)
    \/ LireElec(MaxEchantillons)
    \/ AppelerInsererCycle
    \/ PrendreVerrouBase("boucle")
    \/ ExecuterInsert("boucle")
    \/ EchouerInsert("boucle")
    \/ Valider("boucle")
    \/ Sortir("boucle")
    \/ RetournerInsererCycle
    \/ VerrouEnv
    \/ AjouterEnv
    \/ VerrouElec
    \/ AjouterElec
    \/ Afficher
    \/ Dormir
    \/ Finally

NextVerrous ==
    \/ Demarrer
    \/ AcquisitionVerrous
    \/ \E v \in Visiteurs : Visiteur(v)

\* the loop thread and the threads of the web server under a scheduler that
\* lets every thread run and hands a lock that is released again and again
\* to each thread waiting for it; no Ctrl+C
SpecVerrous ==
    /\ Init
    /\ [][NextVerrous]_vars
    /\ WF_vars(AcquisitionVerrous)
    /\ SF_vars(VerrouEnv)
    /\ SF_vars(VerrouElec)
    /\ SF_vars(PrendreVerrouBase("boucle"))
    /\ \A v \in Visiteurs : WF_vars(Visiteur(v)) /\ SF_vars(VerrouInstantane(v))

----------------------------------------------------------------------------
(* Properties *)

\* the samples of the rows of a table
MesuresDe(table) == {table[i].mesure : i \in 1..Len(table)}

\* the elements of a sequence
Elements(s) == {s[i] : i \in 1..Len(s)}

\* cycle_mesure has ended: it returned, or an exception of its own left it
CycleTermine ==
    \/ pc = "dormir"
    \/ pc = "finally" /\ exception = "sqlite3.Error"

\* the n last elements of a sequence
Derniers(s, n) == IF Len(s) <= n THEN s ELSE SubSeq(s, Len(s) - n + 1, Len(s))

\* the scheduler's state: Idle until boucle_surveillance is called, Running
\* while the flag is set, Stopped once arreter has cleared it
Etat ==
    IF running THEN "Running"
    ELSE IF demarrages > 0 THEN "Stopped"
    ELSE "Idle"

\* a sample is in its table and in its deque
Conservee(m, table, deque) == m \in MesuresDe(table) /\ m \in Elements(deque)

C2_EchecInsertionMesureAjoutee ==
    CycleTermine =>
        /\ (EstMesure(mesure_env) /\ mesure_env \notin MesuresDe(table_env)) =>
              mesure_env \in Elements(dernieres_mesures_env)
        /\ (EstMesure(mesure_elec) /\ mesure_elec \notin MesuresDe(table_elec)) =>
              mesure_elec \in Elements(dernieres_mesures_elec)

\* C3: boucle_surveillance is left only on a stop signal: the flag read False
\* at the while test (no exception) or a KeyboardInterrupt, never on a fault
\* inside a cycle.
C3_SortieSeulementSurArret ==
    pc = "fini" => exception \in {"aucune", "KeyboardInterrupt"}

\* C4: each of the two deques holds at most 100 entries, in every state.
C4_DequesBornees ==
    /\ Len(dernieres_mesures_env) <= 100
    /\ Len(dernieres_mesures_elec) <= 100

\* C4 witness: both deques are full and one more sample was pushed on each.
C4_Temoin ==
    /\ Len(dernieres_mesures_env) = 100
    /\ Len(dernieres_mesures_elec) = 100
    /\ Len(pousses.environnement) > 100
    /\ Len(pousses.electrique) > 100

\* C5: each deque is the last min(n, 100) samples pushed of its kind, in the
\* order of arrival: a push on a full deque evicts the oldest entry only, and
\* a push of one kind leaves the other deque alone.
C5_DequeFIFO ==
    /\ dernieres_mesures_env = Derniers(pousses.environnement, 100)
    /\ dernieres_mesures_elec = Derniers(pousses.electrique, 100)

\* C5 witness: the environmental deque has evicted twice, the electrical one
\* is not full yet.
C5_Temoin ==
    /\ Len(pousses.environnement) = 102
    /\ dernieres_mesures_env[1] = MesureEnvironnement(3)
    /\ Len(pousses.electrique) \in 1..99

\* C6: every sample decoded from a register block has voltage reg[0]/10,
\* current (reg[1] + reg[2]*65536)/1000, power (reg[3] + reg[4]*65536)/10,
\* energy reg[5] + reg[6]*65536 (per 1000 in the kWh file), frequency reg[7]/10
\* and power factor reg[8]/100, the low word first in each pair; the block
\* [2300,1500,0,500,0,1000,0,500,95,0] gives 230.0 V, 1.500 A, 50.0 W, 50.0 Hz
\* and 0.95.
C6_DecodageRegistres ==
    EstMesure(mesure_pzem) =>
        /\ Tension(mesure_pzem) = regs[1]
        /\ Courant(mesure_pzem) = regs[2] + regs[3] * 65536
        /\ Puissance(mesure_pzem) = regs[4] + regs[5] * 65536
        /\ Energie(mesure_pzem) = regs[6] + regs[7] * 65536
        /\ Frequence(mesure_pzem) = regs[8]
        /\ FacteurPuissance(mesure_pzem) = regs[9]
        /\ regs = RegsExemple =>
              /\ Tension(mesure_pzem) = 2300
              /\ Courant(mesure_pzem) = 1500
              /\ Puissance(mesure_pzem) = 500
              /\ Frequence(mesure_pzem) = 500
              /\ FacteurPuissance(mesure_pzem) = 95

\* C7: the two sequences a snapshot has returned are the two deques as they
\* were at one instant, the one at which the web thread took the lock, no push
\* was in progress at that instant, and they stay so whatever is pushed later.
C7_InstantaneCoherent ==
    wpc = "retourne" =>
        /\ reponse.mesures_environnement = instantane.environnement
        /\ reponse.mesures_electriques = instantane.electrique
        /\ ~instantane.ajout_en_cours

\* C7 witness: a snapshot with one sample of each kind has been returned and
\* both deques have been pushed to since.
C7_Temoin ==
    /\ wpc = "retourne"
    /\ Len(reponse.mesures_environnement) = 1
    /\ Len(reponse.mesures_electriques) = 1
    /\ Len(dernieres_mesures_env) > 1
    /\ Len(dernieres_mesures_elec) > 1

\* C8: once Stopped, the instance stays Stopped: no call makes it Running again.
C8_StoppedTerminal ==
    [][Etat = "Stopped" => Etat' = "Stopped"]_vars

\* the stop signal was given by another thread while the loop is inside its
\* try block
ArretDemande == ~running /\ pc \in DansTry

C10_SimulationJamaisNone ==
    mesure_dht # NonLu => EstMesure(mesure_dht)

SectionInsertion == {"execute", "commit", "sortie"}

\* C12: at most one thread is inside the insert-and-commit section of the
\* store, whatever the kinds being appended; the store lock is held exactly by
\* the thread inside the section, so it is free again after every append, one
\* that raised included.
C12_AjoutsExclusifs ==
    /\ Cardinality({f \in Fils : fil[f].pc \in SectionInsertion}) <= 1
    /\ \A f \in Fils : (fil[f].pc \in SectionInsertion) <=> (db_lock = f)
    /\ (\A f \in Fils : fil[f].pc \notin SectionInsertion) => db_lock = "libre"

\* C12 witness: the append of one thread has raised and released the lock, a
\* row is stored, and the other thread is now inside the section.
C12_Temoin ==
    /\ fil["boucle"].pc = "repos" /\ fil["boucle"].erreur
    /\ fil["autre"].pc = "commit"
    /\ db_lock = "autre"
    /\ Len(table_env) + Len(table_elec) >= 1

\* apres is avant with one more row at its end, whose id is above every id of
\* avant
UneLigneDePlus(avant, apres) ==
    /\ Len(apres) = Len(avant) + 1
    /\ SubSeq(apres, 1, Len(avant)) = avant
    /\ \A i \in 1..Len(avant) : apres[Len(apres)].id > avant[i].id

\* C13: a commit adds the caller's sample as one row to the table of its kind,
\* with an id above every id of that table, and leaves every other row of both
\* tables as it was; no other step changes a table; and a query made afterwards
\* counts or returns every committed row: statistics count all rows of the
\* window, recent with a limit that covers the table returns all its rows.
C13_AjoutUneLigne ==
    /\ [][\A f \in Fils : (fil[f].pc = "commit" /\ fil'[f].pc = "sortie") =>
            IF fil[f].mesure.type = "environnement"
              THEN /\ UneLigneDePlus(table_env, table_env')
                   /\ table_env'[Len(table_env')].mesure = fil[f].mesure
                   /\ table_elec' = table_elec
              ELSE /\ UneLigneDePlus(table_elec, table_elec')
                   /\ table_elec'[Len(table_elec')].mesure = fil[f].mesure
                   /\ table_env' = table_env]_vars
    /\ [][(table_env' # table_env \/ table_elec' # table_elec) =>
            \E f \in Fils : fil[f].pc = "commit" /\ fil'[f].pc = "sortie"]_vars
    /\ [][(resultat' # resultat /\ resultat'.type = "statistiques") =>
            /\ resultat'.environnement.nb_mesures =
                  Cardinality({i \in 1..Len(table_env) :
                      table_env[i].mesure.timestamp > horloge - resultat'.argument})
            /\ resultat'.electrique.nb_mesures =
                  Cardinality({i \in 1..Len(table_elec) :
                      table_elec[i].mesure.timestamp > horloge - resultat'.argument})]_vars
    /\ [][(resultat' # resultat /\ resultat'.type = "recentes") =>
            /\ resultat'.argument >= Len(table_env) =>
                  Elements(resultat'.environnement) = Elements(table_env)
            /\ resultat'.argument >= Len(table_elec) =>
                  Elements(resultat'.electrique) = Elements(table_elec)]_vars

\* C13 witness: two environmental rows, the second one read before the first,
\* and one electrical row are stored, the last append has returned and a
\* statistics query has counted both environmental rows.
C13_Temoin ==
    /\ Len(table_env) = 2
    /\ table_env[2].mesure.timestamp < table_env[1].mesure.timestamp
    /\ table_env[2].id > table_env[1].id
    /\ Len(table_elec) = 1
    /\ fil["boucle"].pc = "repos"
    /\ resultat.type = "statistiques"
    /\ resultat.environnement.nb_mesures = 2

\* an aggregate column that is absent (NULL) or zero
AbsentOuZero(x) == x.type = "None" \/ (x.type = "nombre" /\ x.valeur = 0)

\* C14: obtenir_statistiques called when no row of a kind is stamped inside
\* the trailing window returns for that kind a count nb_mesures of 0 and every
\* other aggregate absent or zero.
C14_StatistiquesFenetreVide ==
    [][(resultat' # resultat /\ resultat'.type = "statistiques") =>
        /\ (\A i \in 1..Len(table_env) :
               ~(table_env[i].mesure.timestamp > horloge - resultat'.argument)) =>
              /\ resultat'.environnement.nb_mesures = 0
              /\ \A c \in {"temp_moy", "temp_min", "temp_max",
                           "hum_moy", "hum_min", "hum_max"} :
                    AbsentOuZero(resultat'.environnement[c])
        /\ (\A i \in 1..Len(table_elec) :
               ~(table_elec[i].mesure.timestamp > horloge - resultat'.argument)) =>
              /\ resultat'.electrique.nb_mesures = 0
              /\ \A c \in {"tension_moy", "courant_moy", "puissance_moy",
                           "puissance_max", "energie_totale", "freq_moy", "fp_moy"} :
                    AbsentOuZero(resultat'.electrique[c])]_vars

\* C14 witness: a 24-hour statistics query has answered a count of 0 for the
\* environmental kind, whose only rows are 24 hours old, and has counted an
\* electrical row.
C14_Temoin ==
    /\ resultat.type = "statistiques"
    /\ resultat.argument = 24
    /\ Len(table_env) >= 1
    /\ \A i \in 1..Len(table_env) : table_env[i].mesure.timestamp <= horloge - 24
    /\ resultat.environnement.nb_mesures = 0
    /\ resultat.environnement.temp_moy = Null
    /\ resultat.electrique.nb_mesures >= 1

\* lignes is min(limite, rows of the table) distinct rows of the table, newest
\* first, and no row left out is newer than a row returned
RecentesDe(lignes, table, limite) ==
    /\ Len(lignes) = (IF limite < Len(table) THEN limite ELSE Len(table))
    /\ \A i \in 1..Len(lignes) : lignes[i] \in Elements(table)
    /\ \A i, j \in 1..Len(lignes) :
          i < j => /\ lignes[i] # lignes[j]
                   /\ lignes[i].mesure.timestamp >= lignes[j].mesure.timestamp
    /\ \A l \in Elements(table) \ Elements(lignes) :
          \A i \in 1..Len(lignes) : l.mesure.timestamp <= lignes[i].mesure.timestamp

\* C15: obtenir_mesures_recentes(limite), limite >= 0, returns for each kind
\* min(limite, stored rows of the kind) rows, those with the latest timestamps
\* of the kind, newest first.
C15_MesuresRecentes ==
    [][(resultat' # resultat /\ resultat'.type = "recentes") =>
        /\ RecentesDe(resultat'.environnement, table_env, resultat'.argument)
        /\ RecentesDe(resultat'.electrique, table_elec, resultat'.argument)]_vars

\* C15 witness: with three environmental rows stored out of the order of their
\* timestamps, a query with limit 2 has returned two rows, the newer first,
\* and a row older than both was left out.
C15_Temoin ==
    /\ resultat.type = "recentes"
    /\ resultat.argument = 2
    /\ Len(table_env) = 3
    /\ table_env[1].mesure.timestamp > table_env[2].mesure.timestamp
    /\ table_env[3].mesure.timestamp > table_env[1].mesure.timestamp
    /\ Len(resultat.environnement) = 2
    /\ resultat.environnement[1] = table_env[3]
    /\ resultat.environnement[2] = table_env[1]

\* every field of a sample holds a value
Complete(m) ==
    IF m.type = "environnement"
      THEN IF "programme" \in DOMAIN m
             THEN /\ Temperature(m).type # "None"
                  /\ Humidite(m).type # "None"
                  /\ m.point_rosee.type # "None"
                  /\ m.indice_chaleur.type # "None"
             ELSE {"temperature", "humidite", "point_rosee", "indice_chaleur"}
                      \subseteq DOMAIN m
      ELSE IF m.programme = "v1"
             THEN {"tension", "courant", "puissance", "energie", "frequence",
                   "facteur_puissance"} \subseteq DOMAIN m
             ELSE {"voltage_V", "current_A", "power_W", "energy_Wh", "frequency_Hz",
                   "power_factor", "alarm"} \subseteq DOMAIN m

\* what a read may return: nothing yet, None, or a complete sample
RenduValide(m) == m.type \in {"non_lu", "None"} \/ (EstMesure(m) /\ Complete(m))

\* the driver gave no temperature, no humidity, or raised
PiloteSansValeur(issue) ==
    \/ issue.leve # "aucune"
    \/ issue.temperature = Null
    \/ issue.humidity = Null

\* C16: every read of either channel returns None or a sample whose fields
\* all hold a value; a hardware read of the environmental channel returns None
\* when the driver gives no temperature or no humidity or raises; every row
\* of the store and every entry of the buffers is a complete sample.
C16_MesureCompleteOuNone ==
    /\ RenduValide(mesure_dht) /\ RenduValide(mesure_pzem)
    /\ RenduValide(mesure_env) /\ RenduValide(mesure_elec)
    /\ (dht.mode = "materiel" /\ mesure_dht # NonLu /\ issue_dht # NonLu
          /\ PiloteSansValeur(issue_dht)) => mesure_dht = None
    /\ \A i \in 1..Len(table_env) :
          EstMesure(table_env[i].mesure) /\ Complete(table_env[i].mesure)
    /\ \A i \in 1..Len(table_elec) :
          EstMesure(table_elec[i].mesure) /\ Complete(table_elec[i].mesure)
    /\ \A i \in 1..Len(dernieres_mesures_env) :
          EstMesure(dernieres_mesures_env[i]) /\ Complete(dernieres_mesures_env[i])
    /\ \A i \in 1..Len(dernieres_mesures_elec) :
          EstMesure(dernieres_mesures_elec[i]) /\ Complete(dernieres_mesures_elec[i])

\* C16 witness: a v2 instance in hardware mode stored and buffered a sample of
\* each kind, and its latest environmental read, to which the driver gave a
\* humidity and no temperature, returned None.
C16_Temoin ==
    /\ dht.programme = "v2" /\ dht.mode = "materiel"
    /\ Len(table_env) = 1 /\ Len(dernieres_mesures_env) = 1
    /\ Len(table_elec) = 1 /\ Len(dernieres_mesures_elec) = 1
    /\ issue_dht # NonLu
    /\ issue_dht.leve = "aucune"
    /\ issue_dht.temperature = Null /\ issue_dht.humidity = Nombre(55000)
    /\ mesure_dht = None

\* C17: the dew-point function called with a humidity of 0 or less returns a
\* number, its sentinel, and raises nothing to its caller.
C17_PointRoseeSentinelle ==
    (appel # NonLu /\ appel.fonction = "point_rosee" /\ appel.hum <= 0) =>
        appel.resultat.type = "nombre"

\* C18: the heat-index function called with a temperature below 27 returns
\* that temperature, whatever the humidity, and every sample read on the
\* hardware path with a temperature below 27 has a heat-index field equal to
\* its temperature field.
C18_IndiceChaleurSousSeuil ==
    /\ (appel # NonLu /\ appel.fonction = "indice_chaleur" /\ appel.temp < 27000) =>
          appel.resultat = Nombre(appel.temp)
    /\ (EstMesure(mesure_dht) /\ Temperature(mesure_dht).valeur < 27000) =>
          mesure_dht.indice_chaleur = Temperature(mesure_dht)

\* C18 witness: the v2 function was called just below the threshold with 90 %
\* and returned its argument, and a v1 read at 21.5 degrees gave a sample.
C18_Temoin ==
    /\ appel # NonLu
    /\ appel.fonction = "indice_chaleur" /\ appel.programme = "v2"
    /\ appel.temp = 26990 /\ appel.hum = 90000
    /\ appel.resultat = Nombre(26990)
    /\ EstMesure(mesure_dht)
    /\ mesure_dht.programme = "v1"
    /\ mesure_dht.temperature = Nombre(21500)

\* C19: a read of the electrical channel made while the serial link is
\* failed, a link that could not be opened at construction included, returns
\* None, and no read reopens the link or changes the mode of the sensor.
C19_PanneLiaisonRendNone ==
    [][(mesure_pzem = NonLu /\ mesure_pzem' # NonLu) =>
          /\ pzem' = pzem
          /\ pzem.liaison = "en_panne" => mesure_pzem' = None]_vars

\* C20: when the pin asked for the environmental sensor is not a supported
\* one, construction raises: the instance never leaves construction, and
\* nothing is stored or buffered.
C20_BrocheNonSupporteeLeve ==
    (dht.programme # "aucun" /\ dht.broche \notin BrochesSupportees) =>
        /\ pc = "echec_construction"
        /\ table_env = <<>> /\ table_elec = <<>>
        /\ dernieres_mesures_env = <<>> /\ dernieres_mesures_elec = <<>>

\* C21: a run of _creer_tables on a file that has the two tables leaves the
\* rows, their ids and the schema as they were, and running it again on its
\* own result changes nothing.
C21_CreationIdempotente ==
    [][schema'.creations = schema.creations + 1 =>
          /\ {"mesures_environnement", "mesures_electriques"} \subseteq schema.objets =>
                /\ table_env' = table_env
                /\ table_elec' = table_elec
                /\ schema'.objets = schema.objets
          /\ LET apres == [objets |-> schema'.objets, env |-> table_env',
                           elec |-> table_elec']
             IN  CreerTablesSur(apres) = apres]_vars

\* C21 witness: the second DatabaseManager was constructed on a file that
\* held rows of both kinds.
C21_Temoin ==
    /\ schema.creations = 2
    /\ schema.lignes >= 2
    /\ Len(table_env) >= 1 /\ Len(table_elec) >= 1
    /\ schema.lignes = Len(table_env) + Len(table_elec)

\* the value of the polynomial in the outcome of a heat-index call
Polynome(r) == IF r.type = "arrondi" THEN r.de.millioniemes ELSE r.millioniemes

\* the heat-index function was called at 32 degrees and 70 %
AppelA32Et70 ==
    /\ appel # NonLu
    /\ appel.fonction = "indice_chaleur"
    /\ appel.temp = 32000 /\ appel.hum = 70000

\* C22 as stated: the heat-index polynomial at temperature 32 and humidity 70
\* is within 0.1 of 36.6.
C22_PolynomeA32Et70 ==
    AppelA32Et70 => Abs(Polynome(appel.resultat) - 36600000) <= 100000

\* C22 amended: the heat-index polynomial at temperature 32 and humidity 70
\* is within 0.1 of 40.4.
C22_PolynomeA32Et70Amende ==
    AppelA32Et70 => Abs(Polynome(appel.resultat) - 40400000) <= 100000

\* C22 witness: the v1 function was called at 32 degrees and 70 % and the
\* polynomial gave 40.409 to the thousandth.
C22_Temoin ==
    /\ AppelA32Et70
    /\ appel.programme = "v1"
    /\ Polynome(appel.resultat) \div 1000 = 40409

\* number of times x occurs in a sequence
Occurrences(s, x) == Cardinality({i \in 1..Len(s) : s[i] = x})

\* the samples of the rows of a table, in the order of the rows
SuiteMesures(table) == [i \in 1..Len(table) |-> table[i].mesure]

\* a sample was appended once to its table and pushed once to its deque, and
\* is nowhere on the side of the other kind
UneFoisDeSonCote(m, table, pousses_ici, table_autre, pousses_autre, deque_autre) ==
    /\ Occurrences(SuiteMesures(table), m) = 1
    /\ Occurrences(pousses_ici, m) = 1
    /\ Occurrences(SuiteMesures(table_autre), m) = 0
    /\ Occurrences(pousses_autre, m) = 0
    /\ Occurrences(deque_autre, m) = 0

\* C23: in a cycle the environmental read is made once, at the start, and the
\* electrical read once, after it; when cycle_mesure has returned, each read
\* that gave a sample has that sample once in its table and once among the
\* pushes of its deque and nowhere under the other kind; no sample is ever
\* stored or pushed twice.
C23_UnCycleUneLectureUnAjout ==
    /\ [][/\ (pc' = "lire_env" /\ pc # "lire_env") => pc = "tant_que"
          /\ (pc' = "lire_elec" /\ pc # "lire_elec") => pc \in {"lire_env", "ajouter_env"}
          /\ mesure_env' # mesure_env => pc \in {"tant_que", "lire_env"}
          /\ mesure_elec' # mesure_elec => pc \in {"tant_que", "lire_elec"}]_vars
    /\ [](pc = "dormir" =>
            /\ mesure_env # NonLu /\ mesure_elec # NonLu
            /\ EstMesure(mesure_env) =>
                  UneFoisDeSonCote(mesure_env, table_env, pousses.environnement,
                                   table_elec, pousses.electrique, dernieres_mesures_elec)
            /\ EstMesure(mesure_elec) =>
                  UneFoisDeSonCote(mesure_elec, table_elec, pousses.electrique,
                                   table_env, pousses.environnement, dernieres_mesures_env))
    /\ [](/\ \A m \in MesuresDe(table_env) : Occurrences(SuiteMesures(table_env), m) = 1
          /\ \A m \in MesuresDe(table_elec) : Occurrences(SuiteMesures(table_elec), m) = 1
          /\ \A m \in Elements(pousses.environnement) :
                Occurrences(pousses.environnement, m) = 1
          /\ \A m \in Elements(pousses.electrique) :
                Occurrences(pousses.electrique, m) = 1)

\* C23 witness: the second cycle has returned with a sample of each kind, both
\* tables and both deques hold two samples.
C23_Temoin ==
    /\ pc = "dormir"
    /\ mesure_env = MesureEnvironnement(2)
    /\ mesure_elec = MesureElectrique(2)
    /\ Len(table_env) = 2 /\ Len(table_elec) = 2
    /\ Len(dernieres_mesures_env) = 2 /\ Len(dernieres_mesures_elec) = 2

\* C24: with the flag set and no stop signal, a cycle in which a read returned
\* None is not cut short: cycle_mesure is never left by an exception of its
\* own after a read of that cycle returned None.
C24_CycleAvecNoneVaAuBout ==
    (pc = "finally" /\ exception = "sqlite3.Error") =>
        (mesure_env # None /\ mesure_elec # None)

\* the rows of a table stamped later than an instant
Apres(table, instant) == {i \in 1..Len(table) : table[i].mesure.timestamp > instant}

RECURSIVE SommeSur(_, _, _)
SommeSur(lignes, table, champ) ==
    IF lignes = {} THEN 0
    ELSE LET i == CHOOSE j \in lignes : TRUE
         IN  table[i].mesure[champ] + SommeSur(lignes \ {i}, table, champ)

\* x is the mean of a column over the rows lignes, between its least and its
\* greatest value
EstMoyenne(x, lignes, table, champ) ==
    /\ x = [type |-> "quotient", somme |-> SommeSur(lignes, table, champ),
            nombre |-> Cardinality(lignes)]
    /\ \E i \in lignes : table[i].mesure[champ] * x.nombre <= x.somme
    /\ \E i \in lignes : table[i].mesure[champ] * x.nombre >= x.somme

\* x is the least value of a column over the rows lignes
EstMinimum(x, lignes, table, champ) ==
    /\ x.type = "nombre"
    /\ \E i \in lignes : table[i].mesure[champ] = x.valeur
    /\ \A i \in lignes : table[i].mesure[champ] >= x.valeur

\* x is the greatest value of a column over the rows lignes
EstMaximum(x, lignes, table, champ) ==
    /\ x.type = "nombre"
    /\ \E i \in lignes : table[i].mesure[champ] = x.valeur
    /\ \A i \in lignes : table[i].mesure[champ] <= x.valeur

\* C25: obtenir_statistiques(heures) answers for each kind the number of rows
\* stamped later than now - heures, and when there are such rows its minima,
\* maxima, means and sum are those of exactly these rows, each mean lying
\* between the minimum and the maximum of its column.
C25_StatistiquesSurLaFenetre ==
    [][(resultat' # resultat /\ resultat'.type = "statistiques") =>
        LET env == Apres(table_env, horloge - resultat'.argument)
            elec == Apres(table_elec, horloge - resultat'.argument)
            senv == resultat'.environnement
            selec == resultat'.electrique
        IN  /\ senv.nb_mesures = Cardinality(env)
            /\ selec.nb_mesures = Cardinality(elec)
            /\ env # {} =>
                  /\ EstMoyenne(senv.temp_moy, env, table_env, "temperature")
                  /\ EstMinimum(senv.temp_min, env, table_env, "temperature")
                  /\ EstMaximum(senv.temp_max, env, table_env, "temperature")
                  /\ EstMoyenne(senv.hum_moy, env, table_env, "humidite")
                  /\ EstMinimum(senv.hum_min, env, table_env, "humidite")
                  /\ EstMaximum(senv.hum_max, env, table_env, "humidite")
                  /\ senv.temp_min.valeur * senv.temp_moy.nombre <= senv.temp_moy.somme
                  /\ senv.temp_moy.somme <= senv.temp_max.valeur * senv.temp_moy.nombre
                  /\ senv.hum_min.valeur * senv.hum_moy.nombre <= senv.hum_moy.somme
                  /\ senv.hum_moy.somme <= senv.hum_max.valeur * senv.hum_moy.nombre
            /\ elec # {} =>
                  /\ EstMoyenne(selec.tension_moy, elec, table_elec, "tension")
                  /\ EstMoyenne(selec.courant_moy, elec, table_elec, "courant")
                  /\ EstMoyenne(selec.puissance_moy, elec, table_elec, "puissance")
                  /\ EstMaximum(selec.puissance_max, elec, table_elec, "puissance")
                  /\ selec.energie_totale =
                        [type |-> "nombre", valeur |-> SommeSur(elec, table_elec, "energie")]
                  /\ EstMoyenne(selec.freq_moy, elec, table_elec, "frequence")
                  /\ EstMoyenne(selec.fp_moy, elec, table_elec, "facteur_puissance")
                  /\ selec.puissance_moy.somme
                        <= selec.puissance_max.valeur * selec.puissance_moy.nombre]_vars

\* C25 witness: at hour 24 a 24-hour statistics query has counted the two
\* environmental rows stamped at hours 12 and 24 and left out the one stamped
\* at hour 0.
C25_Temoin ==
    /\ horloge = 24
    /\ resultat.type = "statistiques"
    /\ resultat.argument = 24
    /\ Len(table_env) = 3
    /\ {table_env[i].mesure.timestamp : i \in 1..3} = {0, 12, 24}
    /\ resultat.environnement.nb_mesures = 2
    /\ resultat.environnement.temp_min = [type |-> "nombre", valeur |-> 212]
    /\ resultat.environnement.temp_max = [type |-> "nombre", valeur |-> 224]

\* C26: after every read of the simulated environmental channel sim_temp is
\* within [-10, 50] degrees and sim_hum within [0, 100] percent, and so are
\* the temperature and the humidity of the sample returned.
C26_SimulationEnvBornee ==
    /\ -100 <= sim_temp /\ sim_temp <= 500
    /\ 0 <= sim_hum /\ sim_hum <= 1000
    /\ EstMesure(mesure_dht) =>
          /\ -100 <= mesure_dht.temperature /\ mesure_dht.temperature <= 500
          /\ 0 <= mesure_dht.humidite /\ mesure_dht.humidite <= 1000

\* C26 witness: a read was clamped at 50 degrees and at 100 percent and
\* returned a sample with these values.
C26_Temoin ==
    /\ sim_temp = 500 /\ sim_hum = 1000
    /\ EstMesure(mesure_dht)
    /\ mesure_dht.temperature = 500 /\ mesure_dht.humidite = 1000

\* every sample of both deques is the sample of a row of the table of its kind
TamponDansMagasin ==
    /\ Elements(dernieres_mesures_env) \subseteq MesuresDe(table_env)
    /\ Elements(dernieres_mesures_elec) \subseteq MesuresDe(table_elec)

\* C27: at every instant every sample present in a deque is already a row of
\* the table of its kind, and for each kind the rows inserted during the
\* session are at most one more than the samples pushed to the deque.
C27_InsertionAvantAjout ==
    /\ TamponDansMagasin
    /\ Len(table_env) - Len(pousses.environnement) <= 1
    /\ Len(table_elec) - Len(pousses.electrique) <= 1

\* no thread waits for DatabaseManager.lock while it holds
\* SystemeSurveillance.lock, nor the other way round
OrdreDesVerrous ==
    /\ fil["boucle"].pc = "verrou" => lock # "acquisition"
    /\ pc \in {"verrou_env", "verrou_elec"} => db_lock # "boucle"
    /\ \A v \in Visiteurs : visiteurs[v].pc = "verrou" => db_lock # v

\* C28: the loop thread and the threads of the web server never wait for one
\* lock while holding the other, and under fair scheduling every insert that
\* was started returns, every append to a deque that was started is done, and
\* every snapshot that was started is returned.
C28_SansInterblocage ==
    /\ []OrdreDesVerrous
    /\ (pc \in {"dans_inserer_env", "dans_inserer_elec"})
          ~> (pc \in {"verrou_env", "verrou_elec", "finally"})
    /\ (pc = "verrou_env") ~> (pc = "lire_elec")
    /\ (pc = "verrou_elec") ~> (pc = "afficher")
    /\ \A v \in Visiteurs :
          (visiteurs[v].pc = "verrou") ~> (visiteurs[v].pc = "repos")

\* C28 witness: the loop thread and a thread of the web server both wait for
\* SystemeSurveillance.lock while another thread of the web server holds it,
\* after an insert went through DatabaseManager.lock.
C28_Temoin ==
    /\ pc = "verrou_env"
    /\ Len(table_env) = 1
    /\ lock = "web1"
    /\ visiteurs["web1"].pc = "statistiques"
    /\ visiteurs["web2"].pc = "verrou"

\* the number of entries of a snapshot's sequence stamped within the 24 hours
\* before the snapshot's own timestamp
DansLesDernieres24h(mesures, maintenant) ==
    Cardinality({i \in 1..Len(mesures) : mesures[i].timestamp > maintenant - 24})

\* C29: in every snapshot returned by obtenir_donnees_dashboard the 24-hour
\* count of the statistics is, for each kind, at least the number of entries
\* of that kind in the snapshot that are stamped within the last 24 hours.
C29_StatistiquesCouvrentTampon ==
    wpc = "retourne" =>
        /\ reponse.statistiques.environnement >=
              DansLesDernieres24h(reponse.mesures_environnement, reponse.timestamp)
        /\ reponse.statistiques.electrique >=
              DansLesDernieres24h(reponse.mesures_electriques, reponse.timestamp)

\* C29 witness: a snapshot returned at hour 24 showing an environmental entry
\* stamped at hour 0, outside the window, and one stamped at hour 12, inside
\* it, with a count of one.
C29_Temoin ==
    /\ wpc = "retourne"
    /\ reponse.timestamp = 24
    /\ reponse.mesures_environnement =
          <<MesureEnvironnement(0), MesureEnvironnement(12)>>
    /\ reponse.statistiques.environnement = 1

\* C30: a cycle whose read of a channel gives None leaves the table and the
\* deque of that kind as they were: as long as a cycle holds no sample of a
\* kind, no step appends a row of that kind, pushes an entry of that kind or
\* evicts one.
C30_CycleSansMesureSansEffet ==
    [][/\ (pc \in DansCycle /\ ~EstMesure(mesure_env')) =>
             /\ table_env' = table_env
             /\ dernieres_mesures_env' = dernieres_mesures_env
             /\ pousses'.environnement = pousses.environnement
       /\ (pc \in DansCycle /\ ~EstMesure(mesure_elec')) =>
             /\ table_elec' = table_elec
             /\ dernieres_mesures_elec' = dernieres_mesures_elec
             /\ pousses'.electrique = pousses.electrique]_vars

\* C30 witness: a cycle ended whose environmental read gave None and whose
\* electrical read gave a sample; the environmental table and deque hold the
\* one sample of an earlier cycle, the electrical ones hold two.
C30_Temoin ==
    /\ pc = "dormir"
    /\ mesure_env = None
    /\ EstMesure(mesure_elec)
    /\ Len(table_env) = 1
    /\ Len(dernieres_mesures_env) = 1
    /\ Len(table_elec) = 2
    /\ Len(dernieres_mesures_elec) = 2

====
